---- MODULE Spec2Model ----
(***************************************************************************)
(* Sequence intervals (sequenceInterval.ts): intervals whose endpoints are *)
(* local reference positions of a merge-tree client.  The interval class,  *)
(* the endpoint factory and the serializer are translated from the source; *)
(* the merge-tree collaborator (segments, position lookup, reference       *)
(* comparison, sliding, acknowledgement) is not part of the sources and is *)
(* modelled from the specification's description of it.                    *)
(***************************************************************************)
EXTENDS Integers, Sequences, FiniteSets, TLC

VARIABLES
    removedSeq,  \* merge-tree: slot -> 0 (present) or the sequence number of its removal
    curSeq,      \* merge-tree: client.getCurrentSeq()
    refs,        \* heap of LocalReferencePosition objects (index = identity)
    refPending,  \* history: per reference, created without op/snapshot and not yet acked
    ivs,         \* heap of SequenceIntervalClass objects (index = identity)
    hist,        \* history: per interval, how it was produced
    uuidCount,   \* number of uuid() calls so far
    last         \* the last operation and its outcome

vars == <<removedSeq, curSeq, refs, refPending, ivs, hist, uuidCount, last>>

----------------------------------------------------------------------------
(* Bounds of the model *)

TextLen == 3        \* characters in the initial sequence
MaxIntervals == 2   \* interval objects on the heap
MaxRemoves == 1     \* remove operations applied to the sequence

----------------------------------------------------------------------------
(* Values *)

Before == "Before"
After == "After"
Sides == {Before, After}
NoSide == "undefined"

FORWARD == "Forward"
BACKWARD == "Backward"

RangeBegin == "RangeBegin"
RangeEnd == "RangeEnd"
SlideOnRemove == "SlideOnRemove"
StayOnRemove == "StayOnRemove"
Transient == "Transient"

\* IntervalType values
TypeTransient == "Transient"
TypeSlideOnRemove == "SlideOnRemove"

\* IntervalStickiness is a bitset over START and END
START == "START"
END == "END"

\* number | "start" | "end" | undefined, encoded as integers
StartPos == 0 - 10
EndPos == 0 - 20
Undefined == 0 - 30
DetachedReferencePosition == 0 - 1

\* segments: slots 1..TextLen hold one character each; the two endpoint segments
StartSeg == 0
EndSeg == TextLen + 1
NoSeg == 0 - 1

Slots == 1..TextLen

reservedIntervalIdKey == "intervalId"
reservedRangeLabelsKey == "referenceRangeLabels"

EmptyProps == [k \in {} |-> 0]

NoOp == [present |-> FALSE, refSeq |-> 0]
OpAt(n) == [present |-> TRUE, refSeq |-> n]

\* SequencePlace: undefined, a plain position, or {pos, side}
NoPlace == [kind |-> "undefined", pos |-> Undefined, side |-> Before]
Plain(p) == [kind |-> "plain", pos |-> p, side |-> Before]
Interior(p, s) == [kind |-> "interior", pos |-> p, side |-> s]

Range(s) == {s[i] : i \in DOMAIN s}

----------------------------------------------------------------------------
(* Merge-tree collaborator *)

Sign(n) == IF n < 0 THEN 0 - 1 ELSE IF n > 0 THEN 1 ELSE 0

VisibleIn(rs, s) == rs[s] = 0
VisibleAt(rs, s, refSeq) == rs[s] = 0 \/ rs[s] > refSeq

\* slots of the sequence as seen at refSeq, in order
ViewAt(rs, refSeq) == {s \in Slots : VisibleAt(rs, s, refSeq)}

getLength(rs) == Cardinality({s \in Slots : VisibleIn(rs, s)})

\* client.getContainingSegment(pos, {referenceSequenceNumber}): the slot at
\* position pos of the view at refSeq, NoSeg when there is none
getContainingSegment(rs, pos, refSeq) ==
    LET hit == {s \in ViewAt(rs, refSeq) :
                   Cardinality({t \in ViewAt(rs, refSeq) : t < s}) = pos}
    IN IF hit = {} THEN NoSeg ELSE CHOOSE s \in hit : TRUE

NextVisible(rs, s) ==
    LET c == {t \in Slots : t > s /\ VisibleIn(rs, t)}
    IN IF c = {} THEN NoSeg ELSE CHOOSE t \in c : \A u \in c : t <= u

PrevVisible(rs, s) ==
    LET c == {t \in Slots : t < s /\ VisibleIn(rs, t)}
    IN IF c = {} THEN NoSeg ELSE CHOOSE t \in c : \A u \in c : t >= u

\* where a reference on a removed slot slides to: the nearest surviving
\* character in the preferred direction, else the endpoint segment of that
\* direction when the reference may slide to it, else the other direction
SlideTarget(rs, s, pref, canSlideToEndpoint) ==
    LET fwd == NextVisible(rs, s)
        bwd == PrevVisible(rs, s)
    IN IF pref = FORWARD
       THEN IF fwd # NoSeg THEN fwd
            ELSE IF canSlideToEndpoint THEN EndSeg
            ELSE bwd
       ELSE IF bwd # NoSeg THEN bwd
            ELSE IF canSlideToEndpoint THEN StartSeg
            ELSE fwd

\* getSlideToSegoff(segoff, slidingPreference, undefined, useNewSlidingBehavior)
getSlideToSegoff(rs, seg, pref) ==
    IF seg \notin Slots \/ VisibleIn(rs, seg) THEN seg
    ELSE SlideTarget(rs, seg, pref, FALSE)

\* client.localReferencePositionToPosition(ref)
localReferencePositionToPosition(rs, ref) ==
    IF ref.seg = NoSeg THEN DetachedReferencePosition
    ELSE IF ref.seg = StartSeg THEN 0
    ELSE IF ref.seg = EndSeg THEN getLength(rs)
    ELSE Cardinality({t \in Slots : t < ref.seg /\ VisibleIn(rs, t)})

\* segment.endpointType
endpointType(seg) ==
    IF seg = StartSeg THEN StartPos
    ELSE IF seg = EndSeg THEN EndPos
    ELSE Undefined

\* compareReferencePositions(a, b): detached references first, then by segment order
compareReferencePositions(a, b) == Sign(a.seg - b.seg)

\* endpointPosAndSide(start, end), one endpoint at a time
placePos(p) == IF p.kind = "undefined" THEN Undefined ELSE p.pos
placeSide(p) ==
    IF p.kind = "undefined" THEN NoSide
    ELSE IF p.kind = "plain" THEN Before
    ELSE p.side

\* computeStickinessFromSide(startPos, startSide, endPos, endSide)
computeStickinessFromSide(startPos, startSide, endPos, endSide) ==
    (IF startSide = After \/ startPos = StartPos THEN {START} ELSE {})
    \cup (IF endSide = Before \/ endPos = EndPos THEN {END} ELSE {})

startReferenceSlidingPreference(stickiness) ==
    IF START \in stickiness THEN BACKWARD ELSE FORWARD

endReferenceSlidingPreference(stickiness) ==
    IF stickiness = {START} THEN BACKWARD ELSE FORWARD

\* client.createLocalReferencePosition / createDetachedLocalReferencePosition
\* reference.callbacks undefined; callback functions are numbered from 1
NoCallbacks == [defined |-> FALSE, beforeSlide |-> 0, afterSlide |-> 0]

NewRef(seg, refType, pref, canSlide) ==
    [seg |-> seg, refType |-> refType, slidingPreference |-> pref,
     canSlideToEndpoint |-> canSlide, properties |-> EmptyProps,
     callbacks |-> NoCallbacks]

\* a PropertySet argument: undefined, or the keys given a value and the keys
\* given as undefined
NoProps == [given |-> FALSE, map |-> EmptyProps, undef |-> {}]
Props(map) == [given |-> TRUE, map |-> map, undef |-> {}]

\* addProperties(old, new): keys of new are set, keys given as undefined are removed
addProperties(old, new) ==
    [k \in ((DOMAIN old) \cup (DOMAIN new.map)) \ new.undef |->
        IF k \in DOMAIN new.map THEN new.map[k] ELSE old[k]]

----------------------------------------------------------------------------
(* Endpoint factory *)

includesFlag(refType, flag) == flag \in refType

Failed(e) == [err |-> e, ref |-> NewRef(NoSeg, {}, FORWARD, FALSE)]
Created(r) == [err |-> "none", ref |-> r]

createPositionReferenceFromSegoffNoRollback(segoff, refType, op, localSeq, fromSnapshot, slidingPreference, canSlideToEndpoint, rollback) ==
    IF segoff # NoSeg
    THEN Created(NewRef(segoff, refType, slidingPreference, canSlideToEndpoint))
    ELSE IF /\ ~op.present
            /\ (localSeq = Undefined \/ localSeq = 0)
            /\ ~fromSnapshot
            /\ ~includesFlag(refType, Transient)
    THEN Failed("UsageError: Non-transient references need segment")
    ELSE Created(NewRef(NoSeg, refType, slidingPreference, FALSE))

\* createPositionReferenceFromSegoff: segoff is "start"/"end" (an endpoint
\* segment), a slot, or NoSeg when no segment resolved
createPositionReferenceFromSegoff(segoff, refType, op, localSeq, fromSnapshot, slidingPreference, canSlideToEndpoint, rollback) ==
    IF segoff = StartSeg \/ segoff = EndSeg
    THEN Created(NewRef(segoff, refType, slidingPreference, canSlideToEndpoint))
    ELSE IF segoff # NoSeg
    THEN Created(NewRef(segoff, refType, slidingPreference, canSlideToEndpoint))
    ELSE IF /\ ~op.present
            /\ (localSeq = Undefined \/ localSeq = 0)
            /\ ~fromSnapshot
            /\ ~includesFlag(refType, Transient)
            /\ ~rollback
    THEN Failed("UsageError: Non-transient references need segment")
    ELSE Created(NewRef(NoSeg, refType, slidingPreference, FALSE))

opPerspectiveCurrent(client, op) == client.curSeq

\* the perspective an op's position is resolved in: its reference sequence number
opPerspective(client, op) == op.refSeq

createPositionReferenceSnapshotChecked(client, pos, refType, op, fromSnapshot, localSeq, slidingPreference, exclusive, rollback) ==
    IF op.present
    THEN IF ~includesFlag(refType, SlideOnRemove)
         THEN Failed("assert 0x2f5")
         ELSE LET segoff ==
                      IF pos = StartPos THEN StartSeg
                      ELSE IF pos = EndPos THEN EndSeg
                      ELSE getSlideToSegoff(client.removedSeq,
                               getContainingSegment(client.removedSeq, pos,
                                                    opPerspective(client, op)),
                               slidingPreference)
              IN createPositionReferenceFromSegoff(segoff, refType, op, localSeq,
                     fromSnapshot, slidingPreference, exclusive, rollback)
    ELSE IF includesFlag(refType, SlideOnRemove)
         THEN Failed("assert 0x2f6")
         ELSE LET segoff ==
                      IF pos = StartPos THEN StartSeg
                      ELSE IF pos = EndPos THEN EndSeg
                      ELSE getContainingSegment(client.removedSeq, pos, client.curSeq)
              IN createPositionReferenceFromSegoff(segoff, refType, op, localSeq,
                     fromSnapshot, slidingPreference, exclusive, rollback)

\* createPositionReference
createPositionReference(client, pos, refType, op, fromSnapshot, localSeq, slidingPreference, exclusive, rollback) ==
    IF op.present
    THEN IF ~includesFlag(refType, SlideOnRemove)
         THEN Failed("assert 0x2f5")
         ELSE LET segoff ==
                      IF pos = StartPos THEN StartSeg
                      ELSE IF pos = EndPos THEN EndSeg
                      ELSE getSlideToSegoff(client.removedSeq,
                               getContainingSegment(client.removedSeq, pos,
                                                    opPerspective(client, op)),
                               slidingPreference)
              IN createPositionReferenceFromSegoff(segoff, refType, op, localSeq,
                     fromSnapshot, slidingPreference, exclusive, rollback)
    ELSE IF ~(~includesFlag(refType, SlideOnRemove) \/ fromSnapshot)
         THEN Failed("assert 0x2f6")
         ELSE LET segoff ==
                      IF pos = StartPos THEN StartSeg
                      ELSE IF pos = EndPos THEN EndSeg
                      ELSE getContainingSegment(client.removedSeq, pos, client.curSeq)
              IN createPositionReferenceFromSegoff(segoff, refType, op, localSeq,
                     fromSnapshot, slidingPreference, exclusive, rollback)

----------------------------------------------------------------------------
(* SequenceIntervalClass *)

\* interval.callbacks undefined
NoListeners == [defined |-> FALSE, beforePositionChange |-> 0, afterPositionChange |-> 0]

\* constructor; a side that is omitted or undefined is Side.Before
SequenceIntervalClass(id, label, start, end, intervalType, props, startSide, endSide) ==
    [id |-> id, label |-> label, start |-> start, end |-> end,
     intervalType |-> intervalType,
     properties |-> IF ~props.given THEN EmptyProps
                    ELSE addProperties(EmptyProps, props),
     startSide |-> IF startSide = NoSide THEN Before ELSE startSide,
     endSide |-> IF endSide = NoSide THEN Before ELSE endSide,
     \* #props.propertyManager: the keys with a local change that awaits its
     \* acknowledgement (none when there is no manager yet)
     propertyManager |-> {},
     callbacks |-> NoListeners]

\* the callbacks of a reference after `(ref.callbacks ??= {})` and the two
\* assignments of beforeSlide and afterSlide
slideCallbacks(beforePositionChange, afterPositionChange) ==
    [defined |-> TRUE, beforeSlide |-> beforePositionChange,
     afterSlide |-> afterPositionChange]

addPositionChangeListenersAlways(heap, iv, beforePositionChange, afterPositionChange) ==
    [ival |-> [iv EXCEPT !.callbacks =
                  [defined |-> TRUE, beforePositionChange |-> beforePositionChange,
                   afterPositionChange |-> afterPositionChange]],
     heap |-> [k \in DOMAIN heap |->
                  IF k \in {iv.start, iv.end}
                  THEN [heap[k] EXCEPT !.callbacks =
                           slideCallbacks(beforePositionChange, afterPositionChange)]
                  ELSE heap[k]]]

\* addPositionChangeListeners(beforePositionChange, afterPositionChange):
\* the interval and the heap of references afterwards
addPositionChangeListeners(heap, iv, beforePositionChange, afterPositionChange) ==
    IF ~iv.callbacks.defined
    THEN [ival |-> [iv EXCEPT !.callbacks =
                       [defined |-> TRUE, beforePositionChange |-> beforePositionChange,
                        afterPositionChange |-> afterPositionChange]],
          heap |-> [k \in DOMAIN heap |->
                       IF k \in {iv.start, iv.end}
                       THEN [heap[k] EXCEPT !.callbacks =
                                slideCallbacks(beforePositionChange, afterPositionChange)]
                       ELSE heap[k]]]
    ELSE [ival |-> iv, heap |-> heap]

\* removePositionChangeListeners()
removePositionChangeListeners(heap, iv) ==
    IF iv.callbacks.defined
    THEN [ival |-> [iv EXCEPT !.callbacks = NoListeners],
          heap |-> [k \in DOMAIN heap |->
                       IF k \in {iv.start, iv.end}
                       THEN [heap[k] EXCEPT !.callbacks = NoCallbacks]
                       ELSE heap[k]]]
    ELSE [ival |-> iv, heap |-> heap]

\* clone()
clone(iv) ==
    SequenceIntervalClass(iv.id, iv.label, iv.start, iv.end, iv.intervalType,
                          Props(iv.properties), iv.startSide, iv.endSide)

\* changeProperties(props, op, rollback) on a client whose collab window has the
\* given collaborating flag. Not collaborating: the change is applied with
\* UniversalSequenceNumber and no key becomes pending. Collaborating: a local
\* change is applied and its keys become pending, a local rollback is applied
\* and its keys are pending no longer, and the change of an op is applied to
\* the keys that have no pending local change
changeProperties(iv, props, op, collaborating, rollback) ==
    IF ~props.given THEN iv
    ELSE IF ~collaborating
    THEN [iv EXCEPT !.properties = addProperties(@, props)]
    ELSE IF ~op.present
    THEN [iv EXCEPT !.properties = addProperties(@, props),
                    !.propertyManager = IF rollback THEN @ \ DOMAIN props.map
                                        ELSE @ \cup DOMAIN props.map]
    ELSE [iv EXCEPT !.properties =
             addProperties(@, [given |-> TRUE,
                               map |-> [k \in (DOMAIN props.map) \ iv.propertyManager
                                           |-> props.map[k]],
                               undef |-> {}])]

\* ackPropertiesChange(newProps, op): the keys of the acknowledged change are
\* no longer pending
ackPropertiesChange(iv, newProps) ==
    [iv EXCEPT !.propertyManager = @ \ DOMAIN newProps.map]

\* uuid(): a fresh identifier, "u" followed by the call count
uuid(count) == <<117, count + 1>>

\* the sliding preference and the canSlideToEndpoint argument the code passes
\* for a start reference and for an end reference (createSequenceInterval
\* and modify pass the same expressions)
startSliding(stickiness) ==
    [preference |-> startReferenceSlidingPreference(stickiness),
     exclusive |-> startReferenceSlidingPreference(stickiness) = BACKWARD]

endSlidingBackwardExclusive(stickiness) ==
    [preference |-> endReferenceSlidingPreference(stickiness),
     exclusive |-> endReferenceSlidingPreference(stickiness) = BACKWARD]

endSliding(stickiness) ==
    [preference |-> endReferenceSlidingPreference(stickiness),
     exclusive |-> endReferenceSlidingPreference(stickiness) = FORWARD]

beginRefTypeOred(intervalType, op, fromSnapshot) ==
    IF intervalType = TypeTransient THEN {RangeBegin, Transient}
    ELSE IF op.present \/ fromSnapshot THEN {RangeBegin, SlideOnRemove}
    ELSE {RangeBegin, StayOnRemove}

\* the reference types createSequenceInterval gives the two endpoints
beginRefType(intervalType, op, fromSnapshot) ==
    IF intervalType = TypeTransient THEN {Transient}
    ELSE IF op.present \/ fromSnapshot THEN {RangeBegin, SlideOnRemove}
    ELSE {RangeBegin, StayOnRemove}

endRefType(intervalType, op, fromSnapshot) ==
    IF intervalType = TypeTransient THEN {Transient}
    ELSE IF op.present \/ fromSnapshot THEN {RangeEnd, SlideOnRemove}
    ELSE {RangeEnd, StayOnRemove}

\* reference.addProperties(props)
refAddProperties(ref, props) ==
    [ref EXCEPT !.properties = addProperties(ref.properties, Props(props))]

rangeProp(label) == [k \in {reservedRangeLabelsKey} |-> <<label>>]

\* the props argument createSequenceInterval hands to the constructor
strippedProps(props) ==
    IF ~props.given THEN NoProps
    ELSE [given |-> TRUE,
          map |-> [k \in (DOMAIN props.map) \ {reservedIntervalIdKey, reservedRangeLabelsKey}
                      |-> props.map[k]],
          undef |-> props.undef \cup {reservedIntervalIdKey, reservedRangeLabelsKey}]

NoInterval == SequenceIntervalClass(<<>>, "", 0, 0, TypeSlideOnRemove, NoProps, Before, Before)

\* createSequenceInterval; n is the number of references already created.
\* Result: err, the references created (also those created before a failure)
\* and the interval.
createSequenceInterval(client, n, label, id, start, end, intervalType, op, fromSnapshot, props, rollback) ==
    LET s == IF start.kind = "undefined" THEN Plain(StartPos) ELSE start
        e == IF end.kind = "undefined" THEN Plain(EndPos) ELSE end
        startPos == placePos(s)
        startSide == placeSide(s)
        endPos == placePos(e)
        endSide == placeSide(e)
        stickiness == computeStickinessFromSide(startPos, startSide, endPos, endSide)
        startLref == createPositionReference(client, startPos,
                         beginRefType(intervalType, op, fromSnapshot), op, fromSnapshot,
                         Undefined, startSliding(stickiness).preference,
                         startSliding(stickiness).exclusive, rollback)
        endLref == createPositionReference(client, endPos,
                         endRefType(intervalType, op, fromSnapshot), op, fromSnapshot,
                         Undefined, endSliding(stickiness).preference,
                         endSliding(stickiness).exclusive, rollback)
    IN IF startLref.err # "none"
       THEN [err |-> startLref.err, newRefs |-> <<>>, ival |-> NoInterval]
       ELSE IF endLref.err # "none"
       THEN [err |-> endLref.err, newRefs |-> <<startLref.ref>>, ival |-> NoInterval]
       ELSE [err |-> "none",
             newRefs |-> <<refAddProperties(startLref.ref, rangeProp(label)),
                           refAddProperties(endLref.ref, rangeProp(label))>>,
             ival |-> SequenceIntervalClass(id, label, n + 1, n + 2, intervalType,
                          strippedProps(props), startSide, endSide)]

getRefTypeStripOnly(baseType, op) ==
    IF ~op.present THEN baseType \ {SlideOnRemove}
    ELSE baseType

getRefTypeIgnoringOp(baseType, op) == (baseType \ {SlideOnRemove}) \cup {StayOnRemove}

\* modify's getRefType
getRefType(baseType, op) ==
    IF ~op.present THEN (baseType \ {SlideOnRemove}) \cup {StayOnRemove}
    ELSE baseType

modifyIdFresh(iv, fresh) == fresh

\* the id modify gives the interval it returns
modifyId(iv, fresh) == iv.id

modifyEndpointNew(pos, old, new) == new

\* let startRef = this.start; if (startPos !== undefined) startRef = <new reference>
modifyEndpoint(pos, old, new) == IF pos = Undefined THEN old ELSE new

\* modify; heap holds the references, n = Len(heap).  The label argument is
\* not used by the code.
modify(client, heap, iv, label, start, end, op, localSeq) ==
    LET n == Len(heap)
        startPos == placePos(start)
        startSide == placeSide(start)
        endPos == placePos(end)
        endSide == placeSide(end)
        thisStart == heap[iv.start]
        thisEnd == heap[iv.end]
        stickiness == computeStickinessFromSide(
            IF startPos # Undefined THEN startPos ELSE endpointType(thisStart.seg),
            IF startSide # NoSide THEN startSide ELSE iv.startSide,
            IF endPos # Undefined THEN endPos ELSE endpointType(thisEnd.seg),
            IF endSide # NoSide THEN endSide ELSE iv.endSide)
        startNew == createPositionReference(client, startPos,
                        getRefType(thisStart.refType, op), op, FALSE, localSeq,
                        startSliding(stickiness).preference,
                        startSliding(stickiness).exclusive, FALSE)
        endNew == createPositionReference(client, endPos,
                        getRefType(thisEnd.refType, op), op, FALSE, localSeq,
                        endSliding(stickiness).preference,
                        endSliding(stickiness).exclusive, FALSE)
        startRefs == IF startPos = Undefined THEN <<>>
                     ELSE <<refAddProperties(startNew.ref, thisStart.properties)>>
        endRefs == IF endPos = Undefined THEN <<>>
                   ELSE <<refAddProperties(endNew.ref, thisEnd.properties)>>
        newInterval == SequenceIntervalClass(
            modifyId(iv, uuid(n)), iv.label,
            modifyEndpoint(startPos, iv.start, n + 1),
            modifyEndpoint(endPos, iv.end, n + Len(startRefs) + 1),
            iv.intervalType, NoProps,
            IF startSide # NoSide THEN startSide ELSE iv.startSide,
            IF endSide # NoSide THEN endSide ELSE iv.endSide)
    IN IF startPos # Undefined /\ startNew.err # "none"
       THEN [err |-> startNew.err, newRefs |-> <<>>, ival |-> NoInterval]
       ELSE IF endPos # Undefined /\ endNew.err # "none"
       THEN [err |-> endNew.err, newRefs |-> startRefs, ival |-> NoInterval]
       ELSE [err |-> "none", newRefs |-> startRefs \o endRefs,
             \* copyPropertiesAndManager(this.#props, newInterval.#props)
             ival |-> [newInterval EXCEPT !.properties = iv.properties,
                                          !.propertyManager = iv.propertyManager]]

getIntervalId(iv) == iv.id

\* compareSides(sideA, sideB)
compareSides(sideA, sideB) ==
    IF sideA = sideB THEN 0
    ELSE IF sideA = Before THEN 1
    ELSE 0 - 1

\* minSide(sideA, sideB)
minSide(sideA, sideB) ==
    IF sideA = After /\ sideB = After THEN After ELSE Before

\* maxSide(sideA, sideB)
maxSide(sideA, sideB) ==
    IF sideA = Before /\ sideB = Before THEN Before ELSE After

\* JavaScript's < on strings: by UTF-16 code units, a proper prefix first
RECURSIVE StringLess(_, _)
StringLess(x, y) ==
    IF Len(y) = 0 THEN FALSE
    ELSE IF Len(x) = 0 THEN TRUE
    ELSE IF Head(x) # Head(y) THEN Head(x) < Head(y)
    ELSE StringLess(Tail(x), Tail(y))

\* the truthiness of a string: non-empty
Truthy(str) == Len(str) > 0

\* compareStart(b)
compareStart(heap, a, b) ==
    LET dist == compareReferencePositions(heap[a.start], heap[b.start])
    IN IF dist = 0 THEN compareSides(a.startSide, b.startSide) ELSE dist

\* compareEnd(b)
compareEnd(heap, a, b) ==
    LET dist == compareReferencePositions(heap[a.end], heap[b.end])
    IN IF dist = 0 THEN compareSides(b.endSide, a.endSide) ELSE dist

compareIgnoringIds(heap, a, b) ==
    LET startResult == compareStart(heap, a, b)
    IN IF startResult = 0 THEN compareEnd(heap, a, b) ELSE startResult

\* compare(b)
compare(heap, a, b) ==
    LET startResult == compareStart(heap, a, b)
        endResult == compareEnd(heap, a, b)
        thisId == getIntervalId(a)
        bId == getIntervalId(b)
    IN IF startResult = 0
       THEN IF endResult = 0
            THEN IF Truthy(thisId)
                 THEN IF Truthy(bId)
                      THEN IF StringLess(bId, thisId) THEN 1
                           ELSE IF StringLess(thisId, bId) THEN 0 - 1
                           ELSE 0
                      ELSE 0
                 ELSE 0
            ELSE endResult
       ELSE startResult

overlapsStrictStart(heap, a, b) ==
    /\ compareReferencePositions(heap[a.start], heap[b.end]) < 0
    /\ compareReferencePositions(heap[a.end], heap[b.start]) >= 0

\* overlaps(b)
overlaps(heap, a, b) ==
    /\ compareReferencePositions(heap[a.start], heap[b.end]) <= 0
    /\ compareReferencePositions(heap[a.end], heap[b.start]) >= 0

overlapsPosInclusive(rs, heap, a, bstart, bend) ==
    LET startPos == localReferencePositionToPosition(rs, heap[a.start])
        endPos == localReferencePositionToPosition(rs, heap[a.end])
    IN endPos >= bstart /\ startPos <= bend

\* overlapsPos(bstart, bend)
overlapsPos(rs, heap, a, bstart, bend) ==
    LET startPos == localReferencePositionToPosition(rs, heap[a.start])
        endPos == localReferencePositionToPosition(rs, heap[a.end])
    IN endPos > bstart /\ startPos < bend

\* the stickiness getter
stickiness(heap, iv) ==
    computeStickinessFromSide(endpointType(heap[iv.start].seg), iv.startSide,
                              endpointType(heap[iv.end].seg), iv.endSide)

serializedPositionNumeric(rs, ref) == localReferencePositionToPosition(rs, ref)

\* the start and end position serializeDelta writes for a reference
serializedPosition(rs, ref) ==
    IF endpointType(ref.seg) # Undefined THEN endpointType(ref.seg)
    ELSE localReferencePositionToPosition(rs, ref)

serializedPropertiesSpreadLast(iv, props) ==
    [k \in (DOMAIN props.map) \cup {reservedIntervalIdKey, reservedRangeLabelsKey} |->
        IF k \in DOMAIN props.map THEN props.map[k]
        ELSE IF k = reservedIntervalIdKey THEN iv.id
        ELSE <<iv.label>>]

\* { ...props, [reservedIntervalIdKey]: this.id, [reservedRangeLabelsKey]: [this.label] }
serializedProperties(iv, props) ==
    [k \in (DOMAIN props.map) \cup {reservedIntervalIdKey, reservedRangeLabelsKey} |->
        IF k = reservedIntervalIdKey THEN iv.id
        ELSE IF k = reservedRangeLabelsKey THEN <<iv.label>>
        ELSE props.map[k]]

\* serializeDelta({props, includeEndpoints}); props is a PropertySet argument
serializeDelta(client, heap, iv, props, includeEndpoints) ==
    [end |-> IF includeEndpoints THEN serializedPosition(client.removedSeq, heap[iv.end])
             ELSE Undefined,
     intervalType |-> iv.intervalType,
     sequenceNumber |-> client.curSeq,
     start |-> IF includeEndpoints THEN serializedPosition(client.removedSeq, heap[iv.start])
               ELSE Undefined,
     stickiness |-> stickiness(heap, iv),
     startSide |-> IF includeEndpoints THEN iv.startSide ELSE NoSide,
     endSide |-> IF includeEndpoints THEN iv.endSide ELSE NoSide,
     \* a key of props given as undefined stays an own key with value undefined,
     \* unless it is one of the two reserved keys, which are written after it
     properties |-> [given |-> TRUE,
                     map |-> serializedProperties(iv, props),
                     undef |-> props.undef \ {reservedIntervalIdKey, reservedRangeLabelsKey}]]

\* serialize()
serialize(client, heap, iv) == serializeDelta(client, heap, iv, Props(iv.properties), TRUE)

legacyIdPrefix == <<108, 101, 103, 97, 99, 121>>

RECURSIVE Digits(_)
Digits(n) == IF n < 10 THEN <<48 + n>> ELSE Digits(n \div 10) \o <<48 + (n % 10)>>

\* a start or end of a serialized interval inside a template literal
positionString(pos) ==
    IF pos = StartPos THEN <<115, 116, 97, 114, 116>>
    ELSE IF pos = EndPos THEN <<101, 110, 100>>
    ELSE IF pos = Undefined THEN <<117, 110, 100, 101, 102, 105, 110, 101, 100>>
    ELSE IF pos < 0 THEN <<45>> \o Digits(0 - pos)
    ELSE Digits(pos)

\* serializedInterval.properties ?? {}
recordProperties(serializedInterval) ==
    IF serializedInterval.properties.given THEN serializedInterval.properties
    ELSE [given |-> TRUE, map |-> EmptyProps, undef |-> {}]

\* { [reservedRangeLabelsKey]: labels }: undefined (not given) when the record
\* has none
recordLabels(props) ==
    IF reservedRangeLabelsKey \in DOMAIN props.map
    THEN [given |-> TRUE, list |-> props.map[reservedRangeLabelsKey]]
    ELSE [given |-> FALSE, list |-> <<>>]

\* { ...properties }: the own keys other than the two reserved ones; a key whose
\* value is undefined stays an own key with value undefined
restProperties(props) ==
    [given |-> TRUE,
     map |-> [k \in (DOMAIN props.map) \ {reservedIntervalIdKey, reservedRangeLabelsKey}
                 |-> props.map[k]],
     undef |-> props.undef \ {reservedIntervalIdKey, reservedRangeLabelsKey}]

getSerializedPropertiesLegacyId(serializedInterval) ==
    [id |-> legacyIdPrefix \o positionString(serializedInterval.start)
                \o <<45>> \o positionString(serializedInterval.end),
     labels |-> recordLabels(recordProperties(serializedInterval)),
     properties |-> restProperties(recordProperties(serializedInterval))]

getSerializedPropertiesStartTwice(serializedInterval) ==
    [id |-> IF reservedIntervalIdKey \in DOMAIN recordProperties(serializedInterval).map
            THEN recordProperties(serializedInterval).map[reservedIntervalIdKey]
            ELSE legacyIdPrefix \o positionString(serializedInterval.start)
                     \o <<45>> \o positionString(serializedInterval.start),
     labels |-> recordLabels(recordProperties(serializedInterval)),
     properties |-> restProperties(recordProperties(serializedInterval))]

\* getSerializedProperties(serializedInterval): an intervalId that is absent or
\* undefined gives the legacy id
getSerializedProperties(serializedInterval) ==
    [id |-> IF reservedIntervalIdKey \in DOMAIN recordProperties(serializedInterval).map
            THEN recordProperties(serializedInterval).map[reservedIntervalIdKey]
            ELSE legacyIdPrefix \o positionString(serializedInterval.start)
                     \o <<45>> \o positionString(serializedInterval.end),
     labels |-> recordLabels(recordProperties(serializedInterval)),
     properties |-> restProperties(recordProperties(serializedInterval))]

\* the place a serialized endpoint is handed on as: its position with its side
serializedPlace(pos, side) == IF side = NoSide THEN Plain(pos) ELSE Interior(pos, side)

\* the interval made of a serialized one: getSerializedProperties, then
\* createSequenceInterval with the first label, as for an op or for a snapshot
fromSerialized(client, n, serializedInterval, op, fromSnapshot) ==
    createSequenceInterval(client, n,
        getSerializedProperties(serializedInterval).labels.list[1],
        getSerializedProperties(serializedInterval).id,
        serializedPlace(serializedInterval.start, serializedInterval.startSide),
        serializedPlace(serializedInterval.end, serializedInterval.endSide),
        serializedInterval.intervalType, op, fromSnapshot,
        getSerializedProperties(serializedInterval).properties, FALSE)

\* minReferencePosition(a, b) and maxReferencePosition(a, b), on references of the heap
minReferencePosition(heap, a, b) ==
    IF compareReferencePositions(heap[a], heap[b]) < 0 THEN a ELSE b

maxReferencePosition(heap, a, b) ==
    IF compareReferencePositions(heap[a], heap[b]) > 0 THEN a ELSE b

unionStartOfThis(heap, a, b) == a.start

\* union's newStart and newEnd
unionStart(heap, a, b) == minReferencePosition(heap, a.start, b.start)

unionEnd(heap, a, b) == maxReferencePosition(heap, a.end, b.end)

\* union(b); fresh is the id uuid() returns
union(heap, a, b, fresh) ==
    LET newStart == unionStart(heap, a, b)
        newEnd == unionEnd(heap, a, b)
        startSide == IF a.start = b.start THEN minSide(a.startSide, b.startSide)
                     ELSE IF a.start = newStart THEN a.startSide ELSE b.startSide
        endSide == IF a.end = b.end THEN maxSide(a.endSide, b.endSide)
                   ELSE IF a.end = newEnd THEN a.endSide ELSE b.endSide
    IN SequenceIntervalClass(fresh, a.label, newStart, newEnd, a.intervalType,
                             NoProps, startSide, endSide)

----------------------------------------------------------------------------
(* The client's view of the sequence and of the heap *)

Client == [removedSeq |-> removedSeq, curSeq |-> curSeq]

Intervals == 1..Len(ivs)

startRef(i) == refs[ivs[i].start]
endRef(i) == refs[ivs[i].end]
startPosition(i) == localReferencePositionToPosition(removedSeq, startRef(i))
endPosition(i) == localReferencePositionToPosition(removedSeq, endRef(i))

MaxRefs == 2 * MaxIntervals

Outcome(op, err, iv, res) ==
    [op |-> op, err |-> err, iv |-> iv, res |-> res, r1 |-> 0, r2 |-> 0, pre |-> <<>>]

\* whether references created with this origin are pending (await acknowledgement)
PendingOrigin(intervalType, op, fromSnapshot) ==
    intervalType # TypeTransient /\ ~op.present /\ ~fromSnapshot

----------------------------------------------------------------------------
(* Operations *)

\* createSequenceInterval called by the collection: local, op, snapshot or rollback
\* (uuids: the uuid() calls the caller made for the id)
Create(label, id, start, end, intervalType, op, fromSnapshot, props, rollback, uuids) ==
    /\ Len(ivs) < MaxIntervals
    /\ Len(refs) + 2 <= MaxRefs
    /\ LET r == createSequenceInterval(Client, Len(refs), label, id, start, end,
                    intervalType, op, fromSnapshot, props, rollback)
           pend == PendingOrigin(intervalType, op, fromSnapshot)
       IN /\ refs' = refs \o r.newRefs
          /\ refPending' = refPending \o [k \in 1..Len(r.newRefs) |-> pend]
          /\ IF r.err = "none"
             THEN /\ ivs' = Append(ivs, r.ival)
                  /\ hist' = Append(hist, [how |-> "create", from |-> 0, with |-> 0,
                                           root |-> Len(ivs) + 1,
                                           acked |-> ~pend, ackedHere |-> FALSE])
                  /\ last' = Outcome("create", "none", 0, Len(ivs) + 1)
             ELSE /\ UNCHANGED <<ivs, hist>>
                  /\ last' = Outcome("create", r.err, 0, 0)
    /\ uuidCount' = uuidCount + uuids
    /\ UNCHANGED <<removedSeq, curSeq>>

\* interval.modify(label, start, end, op, localSeq)
Modify(i, label, start, end, op, localSeq) ==
    /\ i \in Intervals
    /\ Len(ivs) < MaxIntervals
    /\ Len(refs) + 2 <= MaxRefs
    /\ LET r == modify(Client, refs, ivs[i], label, start, end, op, localSeq)
           pend == PendingOrigin(ivs[i].intervalType, op, FALSE)
       IN /\ refs' = refs \o r.newRefs
          /\ refPending' = refPending \o [k \in 1..Len(r.newRefs) |-> pend]
          /\ IF r.err = "none"
             THEN /\ ivs' = Append(ivs, r.ival)
                  /\ hist' = Append(hist, [how |-> "modify", from |-> i, with |-> 0,
                                           root |-> hist[i].root,
                                           acked |-> hist[i].acked, ackedHere |-> FALSE])
                  /\ last' = Outcome("modify", "none", i, Len(ivs) + 1)
             ELSE /\ UNCHANGED <<ivs, hist>>
                  /\ last' = Outcome("modify", r.err, i, 0)
    /\ UNCHANGED <<removedSeq, curSeq, uuidCount>>

\* a reference after the slots of rs that are removed have been removed
SlideRef(rs, ref) ==
    IF ref.seg \in Slots /\ ~VisibleIn(rs, ref.seg)
    THEN IF includesFlag(ref.refType, SlideOnRemove)
         THEN [ref EXCEPT !.seg = SlideTarget(rs, ref.seg, ref.slidingPreference,
                                              ref.canSlideToEndpoint)]
         ELSE IF includesFlag(ref.refType, StayOnRemove) THEN ref
         ELSE [ref EXCEPT !.seg = NoSeg]
    ELSE ref

\* a sequenced remove of the characters at positions [r1, r2)
Remove(r1, r2) ==
    /\ curSeq < MaxRemoves
    /\ 0 <= r1 /\ r1 < r2 /\ r2 <= getLength(removedSeq)
    /\ LET gone == {s \in Slots :
                       /\ VisibleIn(removedSeq, s)
                       /\ LET p == Cardinality({t \in Slots : t < s /\ VisibleIn(removedSeq, t)})
                          IN r1 <= p /\ p < r2}
           rs == [s \in Slots |-> IF s \in gone THEN curSeq + 1 ELSE removedSeq[s]]
       IN /\ removedSeq' = rs
          /\ curSeq' = curSeq + 1
          /\ refs' = [k \in DOMAIN refs |-> SlideRef(rs, refs[k])]
          /\ last' = [op |-> "remove", err |-> "none", iv |-> 0, res |-> 0,
                      r1 |-> r1, r2 |-> r2,
                      pre |-> [i \in Intervals |-> <<startPosition(i), endPosition(i)>>]]
    /\ UNCHANGED <<refPending, ivs, hist, uuidCount>>

\* setSlideOnRemove; a reference whose segment was removed meanwhile is moved as the
\* reference of an op is (getSlideToSegoff), detached when no character is left
AckRef(rs, ref) ==
    IF includesFlag(ref.refType, StayOnRemove)
    THEN [ref EXCEPT !.refType = (@ \ {StayOnRemove}) \cup {SlideOnRemove},
                     !.seg = getSlideToSegoff(rs, ref.seg, ref.slidingPreference)]
    ELSE ref

\* the pending op of interval i (its creation, or a local change) is acknowledged
Ack(i) ==
    /\ i \in Intervals
    /\ ivs[i].intervalType # TypeTransient
    /\ \/ includesFlag(startRef(i).refType, StayOnRemove)
       \/ includesFlag(endRef(i).refType, StayOnRemove)
    /\ refs' = [k \in DOMAIN refs |->
                   IF k \in {ivs[i].start, ivs[i].end} THEN AckRef(removedSeq, refs[k])
                   ELSE refs[k]]
    /\ refPending' = [k \in DOMAIN refPending |->
                         IF k \in {ivs[i].start, ivs[i].end} THEN FALSE ELSE refPending[k]]
    /\ hist' = [j \in DOMAIN hist |->
                   [hist[j] EXCEPT !.acked = @ \/ hist[j].root = hist[i].root,
                                   !.ackedHere = @ \/ j = i]]
    /\ last' = Outcome("ack", "none", i, i)
    /\ UNCHANGED <<removedSeq, curSeq, ivs, uuidCount>>

----------------------------------------------------------------------------
(* Spec: the life of one interval of a collection: its creation, the        *)
(* intervals modify makes of it, acknowledgements, removes of characters    *)

Init ==
    /\ removedSeq = [s \in Slots |-> 0]
    /\ curSeq = 0
    /\ refs = <<>>
    /\ refPending = <<>>
    /\ ivs = <<>>
    /\ hist = <<>>
    /\ uuidCount = 0
    /\ last = Outcome("init", "none", 0, 0)

IdA == <<97>>
IdB == <<98>>

CreateStarts == {Plain(0), Interior(0, After)}
CreateEnds == {Plain(1), NoPlace}
ModifyStarts == {NoPlace, Plain(1)}
ModifyEnds == {NoPlace, Interior(2, After)}

CreateLocal ==
    /\ ivs = <<>>
    /\ \E start \in CreateStarts, end \in CreateEnds :
        Create("x", IdA, start, end, TypeSlideOnRemove, NoOp, FALSE, NoProps, FALSE, 0)

CreateFromOp ==
    /\ ivs = <<>>
    /\ \E start \in CreateStarts, end \in CreateEnds, refSeq \in 0..curSeq :
        Create("x", IdA, start, end, TypeSlideOnRemove, OpAt(refSeq), FALSE, NoProps, FALSE, 0)

CreateFromSnapshot ==
    /\ ivs = <<>>
    /\ \E start \in CreateStarts, end \in CreateEnds :
        Create("x", IdA, start, end, TypeSlideOnRemove, NoOp, TRUE, NoProps, FALSE, 0)

CreateRollback ==
    /\ ivs = <<>>
    /\ \E start \in CreateStarts, end \in CreateEnds :
        Create("x", IdA, start, end, TypeSlideOnRemove, NoOp, FALSE, NoProps, TRUE, 0)

\* createTransientInterval(start, end, client)
CreateTransient ==
    /\ ivs = <<>>
    /\ \E start \in CreateStarts, end \in CreateEnds :
        Create("transient", uuid(uuidCount), start, end, TypeTransient,
               NoOp, FALSE, NoProps, FALSE, 1)

ModifyLocal ==
    \E i \in Intervals, start \in ModifyStarts, end \in ModifyEnds :
        Modify(i, "y", start, end, NoOp, Undefined)

ModifyFromOp ==
    \E i \in Intervals, start \in ModifyStarts, end \in ModifyEnds, refSeq \in 0..curSeq :
        Modify(i, "y", start, end, OpAt(refSeq), Undefined)

RemoveRange ==
    \E r1 \in 0..TextLen, r2 \in 0..TextLen : Remove(r1, r2)

AckInterval == \E i \in Intervals : Ack(i)

Next ==
    \/ CreateLocal
    \/ CreateFromOp
    \/ CreateFromSnapshot
    \/ CreateRollback
    \/ CreateTransient
    \/ ModifyLocal
    \/ ModifyFromOp
    \/ RemoveRange
    \/ AckInterval

Spec == Init /\ [][Next]_vars

----------------------------------------------------------------------------
(* SpecSerial: an interval with properties, removes of characters, its      *)
(* acknowledgement, and the intervals made of its serialized form           *)

\* i.serialize() handed to getSerializedProperties and createSequenceInterval
Deserialize(i, op, fromSnapshot) ==
    /\ i \in Intervals
    /\ Len(ivs) < MaxIntervals
    /\ LET r == fromSerialized(Client, Len(refs), serialize(Client, refs, ivs[i]),
                               op, fromSnapshot)
       IN /\ refs' = refs \o r.newRefs
          /\ refPending' = refPending \o [k \in 1..Len(r.newRefs) |-> FALSE]
          /\ IF r.err = "none"
             THEN /\ ivs' = Append(ivs, r.ival)
                  /\ hist' = Append(hist, [how |-> "deserialize", from |-> i, with |-> 0,
                                           root |-> Len(ivs) + 1,
                                           acked |-> TRUE, ackedHere |-> FALSE])
                  /\ last' = Outcome("deserialize", "none", i, Len(ivs) + 1)
             ELSE /\ UNCHANGED <<ivs, hist>>
                  /\ last' = Outcome("deserialize", r.err, i, 0)
    /\ UNCHANGED <<removedSeq, curSeq, uuidCount>>

Red == [k \in {"color"} |-> "red"]
RedAndReserved == [k \in {"color", reservedIntervalIdKey} |->
                      IF k = "color" THEN "red" ELSE IdB]

SerialProps == {NoProps, Props(Red), Props(RedAndReserved)}
SerialStarts == {Plain(0), Interior(1, After)}
SerialEnds == {Plain(2), Interior(2, After)}

SerialCreateLocal ==
    /\ ivs = <<>>
    /\ \E start \in SerialStarts, end \in SerialEnds, props \in SerialProps :
        Create("x", IdA, start, end, TypeSlideOnRemove, NoOp, FALSE, props, FALSE, 0)

SerialCreateFromOp ==
    /\ ivs = <<>>
    /\ \E start \in SerialStarts, end \in SerialEnds, props \in SerialProps :
        Create("x", IdA, start, end, TypeSlideOnRemove, OpAt(curSeq), FALSE, props, FALSE, 0)

SerialCreateTransient ==
    /\ ivs = <<>>
    /\ \E start \in SerialStarts, end \in SerialEnds :
        Create("transient", uuid(uuidCount), start, end, TypeTransient,
               NoOp, FALSE, NoProps, FALSE, 1)

DeserializeFromOp == \E i \in Intervals : Deserialize(i, OpAt(curSeq), FALSE)

DeserializeFromSnapshot == \E i \in Intervals : Deserialize(i, NoOp, TRUE)

NextSerial ==
    \/ SerialCreateLocal
    \/ SerialCreateFromOp
    \/ SerialCreateTransient
    \/ RemoveRange
    \/ AckInterval
    \/ DeserializeFromOp
    \/ DeserializeFromSnapshot

SpecSerial == Init /\ [][NextSerial]_vars

----------------------------------------------------------------------------
(* SpecReplicas: two replicas of one sequence, kept in step on the sequenced *)
(* ops. Intervals made locally are those of the first replica, pending      *)
(* until their op is sequenced; the second replica makes its interval of    *)
(* the op when it is sequenced. Removes are sequenced ops of other clients. *)

LocalIntervals == {i \in Intervals : hist[i].how = "create"}
RemoteIntervals == {i \in Intervals : hist[i].how = "remote"}

MaxThrown == 1    \* start references left behind by calls that threw

\* the first replica makes an interval and submits its op, which carries the places
\* and the sequence number the replica has seen
SubmitLocal(id, start, end) ==
    /\ Cardinality(LocalIntervals) < MaxIntervals
    /\ Len(refs) - 2 * Len(ivs) < MaxThrown
    /\ LET r == createSequenceInterval(Client, Len(refs), "x", id, start, end,
                    TypeSlideOnRemove, NoOp, FALSE, NoProps, FALSE)
       IN /\ refs' = refs \o r.newRefs
          /\ refPending' = refPending \o [k \in 1..Len(r.newRefs) |-> TRUE]
          /\ IF r.err = "none"
             THEN /\ ivs' = Append(ivs, r.ival)
                  /\ hist' = Append(hist, [how |-> "create", from |-> 0, with |-> 0,
                                           root |-> Len(ivs) + 1,
                                           acked |-> FALSE, ackedHere |-> FALSE,
                                           at |-> curSeq, start |-> start, end |-> end])
                  /\ last' = Outcome("create", "none", 0, Len(ivs) + 1)
             ELSE /\ UNCHANGED <<ivs, hist>>
                  /\ last' = Outcome("create", r.err, 0, 0)
    /\ UNCHANGED <<removedSeq, curSeq, uuidCount>>

\* the op of local interval i is sequenced: the first replica acknowledges i, the
\* second makes its interval of the op
Sequenced(i) ==
    /\ i \in LocalIntervals
    /\ ~hist[i].acked
    /\ \A j \in LocalIntervals : j < i => hist[j].acked
    /\ LET r == createSequenceInterval(Client, Len(refs), ivs[i].label, ivs[i].id,
                    hist[i].start, hist[i].end, ivs[i].intervalType,
                    OpAt(hist[i].at), FALSE, NoProps, FALSE)
       IN /\ r.err = "none"
          /\ refs' = [k \in DOMAIN refs |->
                         IF k \in {ivs[i].start, ivs[i].end}
                         THEN AckRef(removedSeq, refs[k]) ELSE refs[k]] \o r.newRefs
          /\ refPending' = [k \in DOMAIN refPending |->
                               IF k \in {ivs[i].start, ivs[i].end} THEN FALSE
                               ELSE refPending[k]] \o <<FALSE, FALSE>>
          /\ ivs' = Append(ivs, r.ival)
          /\ hist' = Append([hist EXCEPT ![i].acked = TRUE, ![i].ackedHere = TRUE],
                            [how |-> "remote", from |-> i, with |-> 0,
                             root |-> Len(ivs) + 1,
                             acked |-> TRUE, ackedHere |-> FALSE,
                             at |-> curSeq, start |-> hist[i].start, end |-> hist[i].end])
          /\ last' = Outcome("sequenced", "none", i, Len(ivs) + 1)
    /\ UNCHANGED <<removedSeq, curSeq, uuidCount>>

ReplicaStarts == {Plain(1), Interior(1, After)}
ReplicaEnds == {Plain(2), Interior(1, After)}

ReplicaSubmit ==
    \E start \in ReplicaStarts, end \in ReplicaEnds :
        SubmitLocal(<<97 + Cardinality(LocalIntervals)>>, start, end)

ReplicaSequenced == \E i \in Intervals : Sequenced(i)

NextReplicas ==
    \/ ReplicaSubmit
    \/ ReplicaSequenced
    \/ RemoveRange

SpecReplicas == Init /\ [][NextReplicas]_vars

----------------------------------------------------------------------------
(* SpecModify: an interval of any origin and the intervals modify makes of  *)
(* it, before and after removes of characters                               *)

NextModify ==
    \/ CreateLocal
    \/ CreateFromOp
    \/ CreateFromSnapshot
    \/ CreateTransient
    \/ ModifyLocal
    \/ ModifyFromOp
    \/ RemoveRange

SpecModify == Init /\ [][NextModify]_vars

----------------------------------------------------------------------------
(* SpecWire: an interval, removes of characters, and the wire records:       *)
(* serializeDelta of the interval, getSerializedProperties of a record       *)

RedAndLabels == [k \in {"color", reservedRangeLabelsKey} |->
                    IF k = "color" THEN "red" ELSE <<"z">>]

\* { color: undefined, intervalId: undefined }
UndefinedColorAndId == [given |-> TRUE, map |-> EmptyProps,
                        undef |-> {"color", reservedIntervalIdKey}]

WireProps == {NoProps, Props(Red), Props(RedAndReserved), Props(RedAndLabels),
              UndefinedColorAndId}

\* i.serializeDelta({props, includeEndpoints})
SerializeDelta(i, props, includeEndpoints) ==
    /\ i \in Intervals
    /\ last' = [op |-> "serializeDelta", err |-> "none", iv |-> i, res |-> 0,
                r1 |-> 0, r2 |-> 0,
                pre |-> [props |-> props, includeEndpoints |-> includeEndpoints,
                         wire |-> serializeDelta(Client, refs, ivs[i], props,
                                                 includeEndpoints)]]
    /\ UNCHANGED <<removedSeq, curSeq, refs, refPending, ivs, hist, uuidCount>>

WireSerializeDelta ==
    \E i \in Intervals, props \in WireProps, includeEndpoints \in BOOLEAN :
        SerializeDelta(i, props, includeEndpoints)

\* a wire record as an older client writes it: no sides, any properties
WireRecord(start, end, properties) ==
    [end |-> end, intervalType |-> TypeSlideOnRemove, sequenceNumber |-> 0,
     start |-> start, stickiness |-> {END}, startSide |-> NoSide, endSide |-> NoSide,
     properties |-> properties]

LegacyRecords ==
    {WireRecord(3, 7, Props(EmptyProps)), WireRecord(3, 7, NoProps),
     WireRecord(3, 7, Props(Red)), WireRecord(3, 12, Props(RedAndLabels)),
     WireRecord(StartPos, EndPos, Props(Red)), WireRecord(3, 7, Props(RedAndReserved)),
     WireRecord(3, 7, UndefinedColorAndId)}

\* getSerializedProperties(record)
GetSerializedProperties(record) ==
    /\ last' = [op |-> "getSerializedProperties", err |-> "none", iv |-> 0, res |-> 0,
                r1 |-> 0, r2 |-> 0,
                pre |-> [record |-> record, got |-> getSerializedProperties(record)]]
    /\ UNCHANGED <<removedSeq, curSeq, refs, refPending, ivs, hist, uuidCount>>

WireGetLegacy == \E record \in LegacyRecords : GetSerializedProperties(record)

WireGetSerialized ==
    \E i \in Intervals : GetSerializedProperties(serialize(Client, refs, ivs[i]))

NextWire ==
    \/ SerialCreateLocal
    \/ SerialCreateFromOp
    \/ SerialCreateTransient
    \/ RemoveRange
    \/ WireSerializeDelta
    \/ WireGetLegacy
    \/ WireGetSerialized

SpecWire == Init /\ [][NextWire]_vars

----------------------------------------------------------------------------
(* SpecAlgebra: intervals created side by side on the same text, compared   *)
(* and united                                                               *)

MaxOperands == 3    \* interval objects compared with each other

\* a.union(b)
Union(i, j) ==
    /\ i \in Intervals /\ j \in Intervals
    /\ Len(ivs) < MaxOperands
    /\ ivs' = Append(ivs, union(refs, ivs[i], ivs[j], uuid(uuidCount)))
    /\ hist' = Append(hist, [how |-> "union", from |-> i, with |-> j,
                             root |-> Len(ivs) + 1,
                             acked |-> FALSE, ackedHere |-> FALSE])
    /\ uuidCount' = uuidCount + 1
    /\ last' = Outcome("union", "none", i, Len(ivs) + 1)
    /\ UNCHANGED <<removedSeq, curSeq, refs, refPending>>

IdAB == <<97, 98>>

\* ids are non-empty strings
AlgebraIds == {IdA, IdAB, IdB}
\* the endpoints of the operands: one position apart, at the same positions with
\* either side on the start or on the end, and overlapping
AlgebraShapes == {<<Plain(0), Plain(1)>>, <<Plain(1), Plain(1)>>,
                  <<Interior(1, After), Interior(1, After)>>,
                  <<Plain(1), Interior(1, After)>>, <<Plain(1), Plain(2)>>}

\* an interval received in an op
AlgebraCreate ==
    /\ Len(ivs) < MaxOperands
    /\ \E id \in AlgebraIds, shape \in AlgebraShapes :
        /\ refs' = refs \o createSequenceInterval(Client, Len(refs), "x", id, shape[1], shape[2],
                              TypeSlideOnRemove, OpAt(curSeq), FALSE, NoProps, FALSE).newRefs
        /\ ivs' = Append(ivs, createSequenceInterval(Client, Len(refs), "x", id, shape[1], shape[2],
                              TypeSlideOnRemove, OpAt(curSeq), FALSE, NoProps, FALSE).ival)
    /\ refPending' = refPending \o <<FALSE, FALSE>>
    /\ hist' = Append(hist, [how |-> "create", from |-> 0, with |-> 0,
                             root |-> Len(ivs) + 1,
                             acked |-> TRUE, ackedHere |-> FALSE])
    /\ last' = Outcome("create", "none", 0, Len(ivs) + 1)
    /\ UNCHANGED <<removedSeq, curSeq, uuidCount>>

AlgebraUnion == \E i \in Intervals, j \in Intervals : Union(i, j)

NextAlgebra ==
    \/ AlgebraCreate
    \/ AlgebraUnion

SpecAlgebra == Init /\ [][NextAlgebra]_vars

----------------------------------------------------------------------------
(* SpecObject: interval objects made by createSequenceInterval, by the       *)
(* constructor, by clone, modify and union, and their properties            *)

\* new SequenceIntervalClass(client, id, label, start, end, intervalType, props,
\* startSide, endSide) on the references and with the label of interval i, with
\* the sides of i or with the sides omitted
Construct(i, id, props, withSides) ==
    /\ i \in Intervals
    /\ Len(ivs) < MaxIntervals
    /\ ivs' = Append(ivs, SequenceIntervalClass(id, ivs[i].label, ivs[i].start, ivs[i].end,
                              ivs[i].intervalType, props,
                              IF withSides THEN ivs[i].startSide ELSE NoSide,
                              IF withSides THEN ivs[i].endSide ELSE NoSide))
    /\ hist' = Append(hist, [how |-> "construct", from |-> i, with |-> 0,
                             root |-> Len(ivs) + 1,
                             acked |-> hist[i].acked, ackedHere |-> FALSE])
    /\ last' = Outcome("construct", "none", i, Len(ivs) + 1)
    /\ UNCHANGED <<removedSeq, curSeq, refs, refPending, uuidCount>>

\* i.clone()
Clone(i) ==
    /\ i \in Intervals
    /\ Len(ivs) < MaxIntervals
    /\ ivs' = Append(ivs, clone(ivs[i]))
    /\ hist' = Append(hist, [how |-> "clone", from |-> i, with |-> 0,
                             root |-> hist[i].root,
                             acked |-> hist[i].acked, ackedHere |-> FALSE])
    /\ last' = Outcome("clone", "none", i, Len(ivs) + 1)
    /\ UNCHANGED <<removedSeq, curSeq, refs, refPending, uuidCount>>

\* changeProperties on a properties object that the intervals made from one
\* another by clone and modify would share
ChangePropertiesShared(i, props, op, collaborating, rollback) ==
    /\ i \in Intervals
    /\ ivs' = [j \in Intervals |->
                 IF hist[j].root = hist[i].root
                 THEN [ivs[j] EXCEPT !.properties = changeProperties(ivs[i], props, op, collaborating, rollback).properties,
                                     !.propertyManager = changeProperties(ivs[i], props, op, collaborating, rollback).propertyManager]
                 ELSE ivs[j]]
    /\ last' = Outcome("changeProperties", "none", i, i)
    /\ UNCHANGED <<removedSeq, curSeq, refs, refPending, hist, uuidCount>>

\* i.changeProperties(props, op, rollback) on a client whose collab window has
\* the given collaborating flag
ChangeProperties(i, props, op, collaborating, rollback) ==
    /\ i \in Intervals
    /\ ivs' = [ivs EXCEPT ![i] = changeProperties(ivs[i], props, op, collaborating, rollback)]
    /\ last' = Outcome("changeProperties", "none", i, i)
    /\ UNCHANGED <<removedSeq, curSeq, refs, refPending, hist, uuidCount>>

\* i.ackPropertiesChange(newProps, op)
AckPropertiesChange(i, newProps) ==
    /\ i \in Intervals
    /\ ivs[i].propertyManager \cap DOMAIN newProps.map # {}
    /\ ivs' = [ivs EXCEPT ![i] = ackPropertiesChange(ivs[i], newProps)]
    /\ last' = Outcome("ackPropertiesChange", "none", i, i)
    /\ UNCHANGED <<removedSeq, curSeq, refs, refPending, hist, uuidCount>>

BlueAndReserved == [k \in {"color", reservedIntervalIdKey} |->
                       IF k = "color" THEN "blue" ELSE IdB]

ObjectProps == {NoProps, Props(RedAndReserved)}
ChangedProps == {NoProps, Props(BlueAndReserved)}

ObjectCreateLocal ==
    \E props \in ObjectProps :
        Create("x", IdA, Plain(0), Plain(1), TypeSlideOnRemove, NoOp, FALSE, props, FALSE, 0)

ObjectCreateFromOp ==
    \E props \in ObjectProps :
        Create("x", IdA, Plain(1), Plain(2), TypeSlideOnRemove, OpAt(curSeq), FALSE, props, FALSE, 0)

ObjectConstruct ==
    \E i \in Intervals, props \in ObjectProps, withSides \in BOOLEAN :
        Construct(i, IdB, props, withSides)

ObjectClone == \E i \in Intervals : Clone(i)

ObjectModify == \E i \in Intervals : Modify(i, "", NoPlace, Plain(2), NoOp, Undefined)

ObjectChangeLocal ==
    \E i \in Intervals, props \in ChangedProps, collaborating \in BOOLEAN, rollback \in BOOLEAN :
        ChangeProperties(i, props, NoOp, collaborating, rollback)

ObjectChangeFromOp ==
    \E i \in Intervals, props \in ChangedProps, collaborating \in BOOLEAN :
        ChangeProperties(i, props, OpAt(curSeq), collaborating, FALSE)

ObjectAckChange == \E i \in Intervals, props \in ChangedProps : AckPropertiesChange(i, props)

NextObject ==
    \/ ObjectCreateLocal
    \/ ObjectCreateFromOp
    \/ ObjectConstruct
    \/ ObjectClone
    \/ ObjectModify
    \/ ObjectChangeLocal
    \/ ObjectChangeFromOp
    \/ ObjectAckChange

SpecObject == Init /\ [][NextObject]_vars

----------------------------------------------------------------------------
(* SpecLabels: intervals of two labels on the same text, cloned, modified   *)
(* and united                                                               *)

LabelX == "x"
LabelY == "y"
Labels == {LabelX, LabelY}

LabelCreateLocal ==
    \E label \in Labels :
        Create(label, IdA, Plain(1), Plain(2), TypeSlideOnRemove, NoOp, FALSE, NoProps, FALSE, 0)

LabelCreateFromOp ==
    \E label \in Labels :
        Create(label, IdB, Plain(0), Plain(1), TypeSlideOnRemove, OpAt(curSeq), FALSE, NoProps, FALSE, 0)

LabelClone == \E i \in Intervals : Clone(i)

LabelModify ==
    \E i \in Intervals, start \in ModifyStarts, end \in ModifyEnds :
        Modify(i, "", start, end, NoOp, Undefined)

LabelUnion == \E i \in Intervals, j \in Intervals : Union(i, j)

NextLabels ==
    \/ LabelCreateLocal
    \/ LabelCreateFromOp
    \/ LabelClone
    \/ LabelModify
    \/ LabelUnion

SpecLabels == Init /\ [][NextLabels]_vars

----------------------------------------------------------------------------
(* SpecListeners: intervals with references of their own, the subscriptions *)
(* to their position changes, removes of characters                         *)

\* i.addPositionChangeListeners(before, after)
AddPositionChangeListeners(i, before, after) ==
    /\ i \in Intervals
    /\ ivs' = [ivs EXCEPT ![i] = addPositionChangeListeners(refs, ivs[i], before, after).ival]
    /\ refs' = addPositionChangeListeners(refs, ivs[i], before, after).heap
    /\ last' = [Outcome("addPositionChangeListeners", "none", i, i) EXCEPT
                   !.pre = [before |-> before, after |-> after, ivs |-> ivs, refs |-> refs]]
    /\ UNCHANGED <<removedSeq, curSeq, refPending, hist, uuidCount>>

\* i.removePositionChangeListeners()
RemovePositionChangeListeners(i) ==
    /\ i \in Intervals
    /\ ivs' = [ivs EXCEPT ![i] = removePositionChangeListeners(refs, ivs[i]).ival]
    /\ refs' = removePositionChangeListeners(refs, ivs[i]).heap
    /\ last' = [Outcome("removePositionChangeListeners", "none", i, i) EXCEPT
                   !.pre = [before |-> 0, after |-> 0, ivs |-> ivs, refs |-> refs]]
    /\ UNCHANGED <<removedSeq, curSeq, refPending, hist, uuidCount>>

\* the pairs of callback functions handed to addPositionChangeListeners
ListenerPairs == {<<1, 2>>, <<3, 4>>}

ListenerCreateLocal ==
    Create("x", IdA, Plain(0), Plain(1), TypeSlideOnRemove, NoOp, FALSE, NoProps, FALSE, 0)

ListenerCreateFromOp ==
    Create("x", IdB, Plain(1), Plain(2), TypeSlideOnRemove, OpAt(curSeq), FALSE, NoProps, FALSE, 0)

ListenerAdd ==
    \E i \in Intervals, pair \in ListenerPairs : AddPositionChangeListeners(i, pair[1], pair[2])

ListenerRemove == \E i \in Intervals : RemovePositionChangeListeners(i)

NextListeners ==
    \/ ListenerCreateLocal
    \/ ListenerCreateFromOp
    \/ ListenerAdd
    \/ ListenerRemove
    \/ RemoveRange

SpecListeners == Init /\ [][NextListeners]_vars

----------------------------------------------------------------------------
(* SpecOverlap: intervals side by side on the same text, apart, touching    *)
(* and overlapping, removes of characters, and the overlap queries          *)

\* a.overlaps(b)
Overlaps(i, j) ==
    /\ i \in Intervals /\ j \in Intervals
    /\ last' = [Outcome("overlaps", "none", i, j) EXCEPT
                   !.pre = [bstart |-> 0, bend |-> 0,
                            result |-> overlaps(refs, ivs[i], ivs[j])]]
    /\ UNCHANGED <<removedSeq, curSeq, refs, refPending, ivs, hist, uuidCount>>

\* i.overlapsPos(bstart, bend)
OverlapsPos(i, bstart, bend) ==
    /\ i \in Intervals
    /\ last' = [Outcome("overlapsPos", "none", i, i) EXCEPT
                   !.pre = [bstart |-> bstart, bend |-> bend,
                            result |-> overlapsPos(removedSeq, refs, ivs[i], bstart, bend)]]
    /\ UNCHANGED <<removedSeq, curSeq, refs, refPending, ivs, hist, uuidCount>>

\* the endpoints of the intervals: over the first and over the last
\* character, empty at the last character, over the whole text
OverlapShapes == {<<0, 1>>, <<TextLen - 2, TextLen - 1>>,
                  <<TextLen - 1, TextLen - 1>>, <<0, TextLen - 1>>}

OverlapCreate ==
    \E shape \in OverlapShapes :
        Create("x", IdA, Plain(shape[1]), Plain(shape[2]), TypeSlideOnRemove,
               OpAt(curSeq), FALSE, NoProps, FALSE, 0)

OverlapQuery == \E i \in Intervals, j \in Intervals : Overlaps(i, j)

\* the ranges asked for: every non-empty range of the text
OverlapPosQuery ==
    \E i \in Intervals, bstart \in 0..TextLen, bend \in 0..TextLen :
        bstart < bend /\ OverlapsPos(i, bstart, bend)

NextOverlap ==
    \/ OverlapCreate
    \/ OverlapQuery
    \/ OverlapPosQuery
    \/ RemoveRange

SpecOverlap == Init /\ [][NextOverlap]_vars

----------------------------------------------------------------------------
(* SpecSegment: references and intervals asked for at positions that may    *)
(* have no segment: removes of characters, then the factory                 *)

\* createPositionReferenceFromSegoff(client, segoff, refType, op, localSeq,
\* fromSnapshot, slidingPreference, canSlideToEndpoint, rollback)
CreatePositionReferenceFromSegoff(segoff, refType, op, localSeq, fromSnapshot, slidingPreference, canSlideToEndpoint, rollback) ==
    /\ refs = <<>>
    /\ LET r == createPositionReferenceFromSegoff(segoff, refType, op, localSeq, fromSnapshot,
                     slidingPreference, canSlideToEndpoint, rollback)
       IN /\ refs' = IF r.err = "none" THEN <<r.ref>> ELSE refs
          /\ refPending' = IF r.err = "none" THEN <<FALSE>> ELSE refPending
          /\ last' = [Outcome("createPositionReferenceFromSegoff", r.err, 0, 0) EXCEPT
                         !.pre = [segoff |-> segoff, refType |-> refType, op |-> op,
                                  localSeq |-> localSeq, fromSnapshot |-> fromSnapshot,
                                  slidingPreference |-> slidingPreference,
                                  rollback |-> rollback]]
    /\ UNCHANGED <<removedSeq, curSeq, ivs, hist, uuidCount>>

\* the segment a position resolves to: none, or the first character
SegmentOrNone == {NoSeg, 1}
SegmentRefTypes == {{RangeBegin, StayOnRemove}, {RangeBegin, SlideOnRemove}, {Transient}}
\* localSeq: undefined, or the number of a local op (local ops are numbered from 1)
LocalSeqs == {Undefined, 1}

SegmentReference ==
    \E segoff \in SegmentOrNone, refType \in SegmentRefTypes, op \in {NoOp, OpAt(curSeq)},
       localSeq \in LocalSeqs, fromSnapshot \in BOOLEAN, slidingPreference \in {FORWARD, BACKWARD},
       rollback \in BOOLEAN :
        CreatePositionReferenceFromSegoff(segoff, refType, op, localSeq, fromSnapshot,
                                          slidingPreference, FALSE, rollback)

NextSegment ==
    \/ SegmentReference
    \/ CreateLocal
    \/ CreateFromOp
    \/ CreateFromSnapshot
    \/ CreateRollback
    \/ CreateTransient
    \/ RemoveRange

SpecSegment == Init /\ [][NextSegment]_vars

----------------------------------------------------------------------------
(* SpecReference: single references asked of createPositionReference with   *)
(* every combination of flags and origin, on text that loses characters     *)

\* createPositionReference(client, pos, refType, op, fromSnapshot, localSeq,
\* slidingPreference, exclusive, useNewSlidingBehavior, rollback)
CreatePositionReference(pos, refType, op, fromSnapshot, localSeq, slidingPreference, exclusive, rollback) ==
    /\ refs = <<>>
    /\ LET r == createPositionReference(Client, pos, refType, op, fromSnapshot, localSeq,
                     slidingPreference, exclusive, rollback)
       IN /\ refs' = IF r.err = "none" THEN <<r.ref>> ELSE refs
          /\ refPending' = IF r.err = "none" THEN <<FALSE>> ELSE refPending
          /\ last' = [Outcome("createPositionReference", r.err, 0, 0) EXCEPT
                         !.pre = [pos |-> pos, refType |-> refType, op |-> op,
                                  fromSnapshot |-> fromSnapshot, rollback |-> rollback]]
    /\ UNCHANGED <<removedSeq, curSeq, ivs, hist, uuidCount>>

ReferencePositions == {StartPos, EndPos, 0, TextLen - 1}
ReferenceRefTypes == {{RangeBegin, SlideOnRemove}, {RangeBegin, StayOnRemove},
                      {RangeBegin}, {Transient}}

ReferenceFromOp ==
    \E pos \in ReferencePositions, refType \in ReferenceRefTypes, fromSnapshot \in BOOLEAN :
        CreatePositionReference(pos, refType, OpAt(curSeq), fromSnapshot, Undefined,
                                FORWARD, FALSE, FALSE)

ReferenceLocal ==
    \E pos \in ReferencePositions, refType \in ReferenceRefTypes, fromSnapshot \in BOOLEAN,
       rollback \in BOOLEAN :
        CreatePositionReference(pos, refType, NoOp, fromSnapshot, Undefined,
                                FORWARD, FALSE, rollback)

NextReference ==
    \/ ReferenceFromOp
    \/ ReferenceLocal
    \/ RemoveRange

SpecReference == Init /\ [][NextReference]_vars

----------------------------------------------------------------------------
(* SpecSliding: an interval created locally or from an op, with either side *)
(* on its start, and the intervals modify makes of it, on text that loses   *)
(* characters                                                               *)

NextSliding ==
    \/ CreateLocal
    \/ CreateFromOp
    \/ ModifyLocal
    \/ ModifyFromOp
    \/ RemoveRange

SpecSliding == Init /\ [][NextSliding]_vars

----------------------------------------------------------------------------
(* SpecShared: intervals that share reference objects (a clone, a modified  *)
(* copy with one endpoint kept, a union) and their subscriptions            *)

SharedCreate ==
    /\ ivs = <<>>
    /\ Create("x", IdA, Plain(0), Plain(1), TypeSlideOnRemove, OpAt(curSeq), FALSE, NoProps, FALSE, 0)

SharedClone == \E i \in Intervals : Clone(i)

SharedModify == \E i \in Intervals : Modify(i, "", NoPlace, Plain(2), OpAt(curSeq), Undefined)

SharedUnion == \E i \in Intervals, j \in Intervals : Union(i, j)

NextShared ==
    \/ SharedCreate
    \/ SharedClone
    \/ SharedModify
    \/ SharedUnion
    \/ ListenerAdd
    \/ ListenerRemove

SpecShared == Init /\ [][NextShared]_vars


----------------------------------------------------------------------------
(* SpecFrame: every operation of an interval object, applied to intervals   *)
(* with properties and listeners, and property changes after them           *)

\* a.compare(b), a.compareStart(b), a.compareEnd(b)
Compare(i, j) ==
    /\ i \in Intervals /\ j \in Intervals
    /\ last' = [Outcome("compare", "none", i, j) EXCEPT
                   !.pre = [compare |-> compare(refs, ivs[i], ivs[j]),
                            compareStart |-> compareStart(refs, ivs[i], ivs[j]),
                            compareEnd |-> compareEnd(refs, ivs[i], ivs[j])]]
    /\ UNCHANGED <<removedSeq, curSeq, refs, refPending, ivs, hist, uuidCount>>

\* i.serialize()
Serialize(i) ==
    /\ i \in Intervals
    /\ last' = [Outcome("serialize", "none", i, i) EXCEPT
                   !.pre = [wire |-> serialize(Client, refs, ivs[i])]]
    /\ UNCHANGED <<removedSeq, curSeq, refs, refPending, ivs, hist, uuidCount>>

FrameCreate ==
    /\ ivs = <<>>
    /\ Create("x", IdA, Plain(0), Plain(1), TypeSlideOnRemove, NoOp, FALSE, Props(Red), FALSE, 0)

FrameListen == AddPositionChangeListeners(1, 1, 2)

FrameClone == \E i \in Intervals : Clone(i)

FrameModify == \E i \in Intervals : Modify(i, "", NoPlace, Plain(2), NoOp, Undefined)

FrameUnion ==
    /\ Len(ivs) < MaxIntervals
    /\ \E i \in Intervals, j \in Intervals : Union(i, j)

FrameCompare == \E i \in Intervals, j \in Intervals : Compare(i, j)

FrameOverlaps == \E i \in Intervals, j \in Intervals : Overlaps(i, j)

FrameOverlapsPos == \E i \in Intervals : OverlapsPos(i, 0, 1)

FrameSerialize == \E i \in Intervals : Serialize(i)

FrameSerializeDelta == \E i \in Intervals : SerializeDelta(i, Props(Red), TRUE)

FrameChange ==
    \E i \in Intervals, collaborating \in BOOLEAN, rollback \in BOOLEAN :
        ChangeProperties(i, Props(BlueAndReserved), NoOp, collaborating, rollback)

NextFrame ==
    \/ FrameCreate
    \/ FrameListen
    \/ FrameClone
    \/ FrameModify
    \/ FrameUnion
    \/ FrameCompare
    \/ FrameOverlaps
    \/ FrameOverlapsPos
    \/ FrameSerialize
    \/ FrameSerializeDelta
    \/ FrameChange

SpecFrame == Init /\ [][NextFrame]_vars

----------------------------------------------------------------------------
(* Claims checked under Spec *)

NonTransient(i) == ivs[i].intervalType # TypeTransient
EndpointRefs(i) == {ivs[i].start, ivs[i].end}

\* C1: every interval that modify returns has the id of the interval it was
\* made from, whichever endpoints were given and with or without an op.
C1_IdStable ==
    \A i \in Intervals :
        hist[i].how = "modify" =>
            /\ getIntervalId(ivs[i]) = getIntervalId(ivs[hist[i].from])
            /\ getIntervalId(ivs[i]) = getIntervalId(ivs[hist[i].root])

\* a modify that replaced the start reference and kept the end reference
C1_Witness ==
    \E i \in Intervals :
        /\ hist[i].how = "modify"
        /\ ivs[i].start # ivs[hist[i].from].start
        /\ ivs[i].end = ivs[hist[i].from].end
        /\ Len(ivs[i].id) > 0

ExactlyOneRemoveFlag(r) ==
    includesFlag(refs[r].refType, SlideOnRemove) # includesFlag(refs[r].refType, StayOnRemove)

\* C7 as stated: each endpoint of a non-transient interval carries exactly one
\* of SlideOnRemove and StayOnRemove, and StayOnRemove exactly when the
\* interval's creation op has not been acknowledged.
C7_AsStated ==
    \A i \in Intervals :
        NonTransient(i) =>
            \A r \in EndpointRefs(i) :
                /\ ExactlyOneRemoveFlag(r)
                /\ includesFlag(refs[r].refType, StayOnRemove) <=> ~hist[i].acked

\* C7 amended: each endpoint of a non-transient interval carries exactly one of
\* SlideOnRemove and StayOnRemove, and StayOnRemove exactly when the reference
\* itself is pending: it was created without an op and not from a snapshot (by
\* a local or rollback creation, or by a modify without op) and has not been
\* acknowledged since.
C7_StayIffPending ==
    \A i \in Intervals :
        NonTransient(i) =>
            \A r \in EndpointRefs(i) :
                /\ ExactlyOneRemoveFlag(r)
                /\ includesFlag(refs[r].refType, StayOnRemove) <=> refPending[r]

\* an interval whose creation is acknowledged and whose start was replaced by
\* a modify without op: the new start carries StayOnRemove
C7_Witness ==
    \E i \in Intervals :
        /\ NonTransient(i)
        /\ hist[i].how = "modify"
        /\ hist[i].acked
        /\ ivs[i].start # ivs[hist[i].from].start
        /\ includesFlag(startRef(i).refType, StayOnRemove)
        /\ includesFlag(endRef(i).refType, SlideOnRemove)

\* C8: once the pending op of an interval has been acknowledged, both endpoint
\* references of that interval carry SlideOnRemove and not StayOnRemove, and
\* they keep them whatever is done afterwards.
C8_AckedSlideOnRemove ==
    \A i \in Intervals :
        hist[i].ackedHere =>
            \A r \in EndpointRefs(i) :
                /\ includesFlag(refs[r].refType, SlideOnRemove)
                /\ ~includesFlag(refs[r].refType, StayOnRemove)

\* a locally created interval, acknowledged, and modified afterwards
C8_Witness ==
    \E i, j \in Intervals :
        /\ hist[i].how = "create"
        /\ hist[i].ackedHere
        /\ hist[j].how = "modify" /\ hist[j].from = i
        /\ last.op = "modify" /\ last.res = j

\* the intervals C10 is about, for the remove recorded in last
C10_Case(i) ==
    /\ last.op = "remove"
    /\ ivs[i].startSide = Before
    /\ ivs[i].endSide = Before
    /\ \A r \in EndpointRefs(i) : includesFlag(refs[r].refType, SlideOnRemove)
    /\ 0 <= last.pre[i][1]
    /\ last.pre[i][1] < last.r1
    /\ last.r1 <= last.pre[i][2]
    /\ last.pre[i][2] < last.r2

\* C10: when a remove of [r1, r2) hits an acknowledged interval (s Before,
\* e Before) with s < r1 <= e < r2, the start still resolves to s and the end
\* resolves to r1.
C10_SlideOnRemove ==
    \A i \in Intervals :
        C10_Case(i) => startPosition(i) = last.pre[i][1] /\ endPosition(i) = last.r1

\* the remove took everything from r1 to the end of the text: the end
\* reference is on the "end" endpoint segment
C10_Witness ==
    \E i \in Intervals :
        /\ C10_Case(i)
        /\ endRef(i).seg = EndSeg
        /\ last.r1 = 1

----------------------------------------------------------------------------
(* Claims checked under SpecAlgebra *)

refPosition(r) == localReferencePositionToPosition(removedSeq, refs[r])

CompareIsTotalOrderOn(S) ==
    \A a \in S, b \in S, c \in S :
        /\ compare(refs, ivs[a], ivs[a]) = 0
        /\ compare(refs, ivs[a], ivs[b]) = 0 - compare(refs, ivs[b], ivs[a])
        /\ (compare(refs, ivs[a], ivs[b]) <= 0 /\ compare(refs, ivs[b], ivs[c]) <= 0)
              => compare(refs, ivs[a], ivs[c]) <= 0

IdOrder(x, y) == IF StringLess(y, x) THEN 1 ELSE IF StringLess(x, y) THEN 0 - 1 ELSE 0

CompareIsLexicographicOn(S) ==
    \A a \in S, b \in S :
        /\ compare(refs, ivs[a], ivs[b]) =
              IF compareStart(refs, ivs[a], ivs[b]) # 0 THEN compareStart(refs, ivs[a], ivs[b])
              ELSE IF compareEnd(refs, ivs[a], ivs[b]) # 0 THEN compareEnd(refs, ivs[a], ivs[b])
              ELSE IdOrder(ivs[a].id, ivs[b].id)
        /\ compare(refs, ivs[a], ivs[b]) = 0 <=>
              /\ compareStart(refs, ivs[a], ivs[b]) = 0
              /\ compareEnd(refs, ivs[a], ivs[b]) = 0
              /\ ivs[a].id = ivs[b].id

\* C3: over all intervals, compare is reflexive, antisymmetric and transitive, is
\* the lexicographic combination of compareStart, compareEnd and the id strings,
\* and is 0 exactly when both endpoint comparisons are 0 and the ids are equal.
C3_TotalOrder == CompareIsTotalOrderOn(Intervals) /\ CompareIsLexicographicOn(Intervals)

\* three intervals, two of them with the same endpoints told apart by their ids
\* only, and two with the same endpoints and the same id
C3_Witness ==
    \E a \in Intervals, b \in Intervals, c \in Intervals :
        /\ a # b /\ b # c /\ a # c
        /\ compareIgnoringIds(refs, ivs[a], ivs[b]) = 0
        /\ compare(refs, ivs[a], ivs[b]) < 0
        /\ compare(refs, ivs[b], ivs[c]) = 0

UnionResults == {u \in Intervals : hist[u].how = "union"}

\* C4: for all intervals a and b, a.union(b) and b.union(a) have the same start position
\* and the same end position, and the id of a union is a fresh one: no other interval
\* has it.
C4_UnionCommutes ==
    /\ \A a \in Intervals, b \in Intervals :
          /\ refPosition(union(refs, ivs[a], ivs[b], uuid(uuidCount)).start)
               = refPosition(union(refs, ivs[b], ivs[a], uuid(uuidCount + 1)).start)
          /\ refPosition(union(refs, ivs[a], ivs[b], uuid(uuidCount)).end)
               = refPosition(union(refs, ivs[b], ivs[a], uuid(uuidCount + 1)).end)
          /\ union(refs, ivs[a], ivs[b], uuid(uuidCount)).id
               # union(refs, ivs[b], ivs[a], uuid(uuidCount + 1)).id
    /\ \A u \in UnionResults :
          /\ ivs[u].start = union(refs, ivs[hist[u].from], ivs[hist[u].with], ivs[u].id).start
          /\ ivs[u].end = union(refs, ivs[hist[u].from], ivs[hist[u].with], ivs[u].id).end
          /\ \A i \in Intervals \ {u} : ivs[i].id # ivs[u].id

\* a union of two intervals that start at different positions and end at different
\* positions, where the other order of the operands has to pick the other operand's
\* endpoints to agree
C4_Witness ==
    \E u \in UnionResults :
        /\ refPosition(ivs[hist[u].from].start) > refPosition(ivs[hist[u].with].start)
        /\ refPosition(ivs[hist[u].from].end) > refPosition(ivs[hist[u].with].end)
        /\ ivs[u].start = ivs[hist[u].with].start
        /\ ivs[u].end = ivs[hist[u].from].end

\* C5 as stated: when the operands of a union start at the same position, Before wins
\* as the start side if either start side is Before; when they end at the same
\* position, After wins as the end side if either end side is After.
C5_AsStated ==
    \A u \in UnionResults :
        /\ (/\ compareReferencePositions(refs[ivs[hist[u].from].start],
                                         refs[ivs[hist[u].with].start]) = 0
            /\ Before \in {ivs[hist[u].from].startSide, ivs[hist[u].with].startSide})
              => ivs[u].startSide = Before
        /\ (/\ compareReferencePositions(refs[ivs[hist[u].from].end],
                                         refs[ivs[hist[u].with].end]) = 0
            /\ After \in {ivs[hist[u].from].endSide, ivs[hist[u].with].endSide})
              => ivs[u].endSide = After

\* C6 as stated: the union starts no later than either operand and ends no earlier
\* than either operand, under compareStart and compareEnd.
C6_AsStated ==
    \A u \in UnionResults :
        /\ compareStart(refs, ivs[u], ivs[hist[u].from]) <= 0
        /\ compareStart(refs, ivs[u], ivs[hist[u].with]) <= 0
        /\ compareEnd(refs, ivs[u], ivs[hist[u].from]) >= 0
        /\ compareEnd(refs, ivs[u], ivs[hist[u].with]) >= 0

----------------------------------------------------------------------------
(* Claims checked under SpecSerial *)

SameUserVisibleFields(i, j) ==
    /\ ivs[j].id = ivs[i].id
    /\ ivs[j].label = ivs[i].label
    /\ ivs[j].startSide = ivs[i].startSide
    /\ ivs[j].endSide = ivs[i].endSide
    /\ ivs[j].intervalType = ivs[i].intervalType
    /\ ivs[j].properties = ivs[i].properties

SameSerializedEndpoints(i, j) ==
    /\ serialize(Client, refs, ivs[j]).start = serialize(Client, refs, ivs[i]).start
    /\ serialize(Client, refs, ivs[j]).end = serialize(Client, refs, ivs[i]).end

\* C2 as stated: handing i.serialize() to getSerializedProperties and
\* createSequenceInterval on the same sequence state gives an interval equal to i in
\* id, label, sides, intervalType and user properties, whose serialize() has the same
\* start and end.
C2_AsStated ==
    last.op = "deserialize" =>
        /\ last.err = "none"
        /\ SameUserVisibleFields(last.iv, last.res)
        /\ SameSerializedEndpoints(last.iv, last.res)

\* what i.serialize() gives when handed on in the present state, as for an op seen at
\* the current sequence number or as for a snapshot
RoundTrip(i, op, fromSnapshot) ==
    fromSerialized(Client, Len(refs), serialize(Client, refs, ivs[i]), op, fromSnapshot)

\* a reference left on a removed character after which no character survives: it
\* resolves to the length of the text
StaysPastText(ref) ==
    /\ ref.seg \in Slots
    /\ ~VisibleIn(removedSeq, ref.seg)
    /\ NextVisible(removedSeq, ref.seg) = NoSeg

RoundTripPosition(old, new) ==
    serializedPosition(removedSeq, new) =
        IF StaysPastText(old) THEN DetachedReferencePosition
        ELSE serializedPosition(removedSeq, old)

RoundTripHolds(i, op, fromSnapshot) ==
    IF ivs[i].intervalType = TypeTransient /\ op.present
    THEN RoundTrip(i, op, fromSnapshot).err = "assert 0x2f5"
    ELSE /\ RoundTrip(i, op, fromSnapshot).err = "none"
         /\ RoundTrip(i, op, fromSnapshot).ival.id = ivs[i].id
         /\ RoundTrip(i, op, fromSnapshot).ival.label = ivs[i].label
         /\ RoundTrip(i, op, fromSnapshot).ival.startSide = ivs[i].startSide
         /\ RoundTrip(i, op, fromSnapshot).ival.endSide = ivs[i].endSide
         /\ RoundTrip(i, op, fromSnapshot).ival.intervalType = ivs[i].intervalType
         /\ RoundTrip(i, op, fromSnapshot).ival.properties = ivs[i].properties
         /\ RoundTripPosition(startRef(i), RoundTrip(i, op, fromSnapshot).newRefs[1])
         /\ RoundTripPosition(endRef(i), RoundTrip(i, op, fromSnapshot).newRefs[2])

\* C2 (amended): handing i.serialize() to getSerializedProperties and
\* createSequenceInterval (start and end handed on with their sides) on the same
\* sequence state fails for a Transient interval handed on with an op, and otherwise
\* gives an interval equal to i in id, label, sides, intervalType and user properties,
\* whose serialize() has the same start and end except for an endpoint of i left on a
\* removed character with no character after it, which the new interval serializes
\* as -1 (detached).
C2_RoundTrip ==
    /\ \A i \in Intervals :
          /\ RoundTripHolds(i, OpAt(curSeq), FALSE)
          /\ RoundTripHolds(i, NoOp, TRUE)
    /\ (last.op = "deserialize" /\ last.err = "none")
          => SameUserVisibleFields(last.iv, last.res)

\* an interval with a user property and a start side After, one endpoint of which is
\* left on a removed character, was serialized and made again, with the same positions
C2_Witness ==
    /\ last.op = "deserialize" /\ last.err = "none"
    /\ "color" \in DOMAIN ivs[last.res].properties
    /\ ivs[last.iv].startSide = After
    /\ \E r \in {ivs[last.iv].start, ivs[last.iv].end} :
          refs[r].seg \in Slots /\ ~VisibleIn(removedSeq, refs[r].seg)
    /\ SameSerializedEndpoints(last.iv, last.res)

----------------------------------------------------------------------------
(* Claims checked under SpecReplicas *)

\* C9: once the op of a locally made interval is sequenced, and after every further
\* sequenced remove, the interval of the replica that made it and the interval the
\* other replica made of the op resolve to the same start and end positions, and the
\* two replicas order their intervals identically under compare.
C9_Convergence ==
    /\ \A j \in RemoteIntervals :
          /\ startPosition(j) = startPosition(hist[j].from)
          /\ endPosition(j) = endPosition(hist[j].from)
    /\ \A j \in RemoteIntervals, k \in RemoteIntervals :
          compare(refs, ivs[j], ivs[k]) = compare(refs, ivs[hist[j].from], ivs[hist[k].from])

\* the slot an op's place resolves to in the view the op was made in
AnchorOf(place, at) == getContainingSegment(removedSeq, placePos(place), at)

\* a remove sequenced between the making of an interval and the sequencing of its op
\* deleted the character the end was anchored to, and the replicas agree on attached
\* positions
C9_Witness ==
    \E j \in RemoteIntervals :
        /\ removedSeq[AnchorOf(hist[j].end, hist[hist[j].from].at)] > hist[hist[j].from].at
        /\ removedSeq[AnchorOf(hist[j].end, hist[hist[j].from].at)] <= hist[j].at
        /\ startPosition(j) >= 0
        /\ endPosition(j) >= startPosition(j)

----------------------------------------------------------------------------
(* Claims checked under SpecModify *)

\* the reference an endpoint index of a modify result stands for
ResultRef(r, k) == IF k \in DOMAIN refs THEN refs[k] ELSE r.newRefs[k - Len(refs)]

LocalModify(i, start, end) == modify(Client, refs, ivs[i], "y", start, end, NoOp, Undefined)

\* C11: a modify without op that returns an interval shares with the receiver every
\* endpoint reference it was not given a place for, with the receiver's side, and
\* gives every endpoint it was given a place for a new reference that carries
\* StayOnRemove and not SlideOnRemove, whatever the flags of the reference replaced.
C11_LocalModifyOneEndpoint ==
    \A i \in Intervals : \A start \in ModifyStarts, end \in ModifyEnds :
        LET r == LocalModify(i, start, end)
        IN r.err = "none" =>
            /\ IF start = NoPlace
               THEN /\ r.ival.start = ivs[i].start
                    /\ r.ival.startSide = ivs[i].startSide
               ELSE /\ r.ival.start \notin DOMAIN refs
                    /\ StayOnRemove \in ResultRef(r, r.ival.start).refType
                    /\ SlideOnRemove \notin ResultRef(r, r.ival.start).refType
            /\ IF end = NoPlace
               THEN /\ r.ival.end = ivs[i].end
                    /\ r.ival.endSide = ivs[i].endSide
               ELSE /\ r.ival.end \notin DOMAIN refs
                    /\ StayOnRemove \in ResultRef(r, r.ival.end).refType
                    /\ SlideOnRemove \notin ResultRef(r, r.ival.end).refType

\* a modify made an interval of one whose start carries SlideOnRemove: the end
\* reference is shared, the start reference is a new one carrying StayOnRemove
C11_Witness ==
    /\ last.op = "modify" /\ last.err = "none"
    /\ ivs[last.res].end = ivs[last.iv].end
    /\ ivs[last.res].start # ivs[last.iv].start
    /\ SlideOnRemove \in startRef(last.iv).refType
    /\ StayOnRemove \in startRef(last.res).refType
    /\ SlideOnRemove \notin startRef(last.res).refType

----------------------------------------------------------------------------
(* Claims checked under SpecWire *)

ReservedKeys == {reservedIntervalIdKey, reservedRangeLabelsKey}

\* C12: whatever the props argument, also one with reserved keys, the properties of
\* serializeDelta's result have intervalId equal to the interval's id and
\* referenceRangeLabels equal to the list of the interval's label alone, and every
\* other key of props with its value (a key given as undefined stays undefined).
C12_SerializedProperties ==
    last.op = "serializeDelta" =>
        /\ last.pre.wire.properties.given
        /\ last.pre.wire.properties.map[reservedIntervalIdKey] = ivs[last.iv].id
        /\ last.pre.wire.properties.map[reservedRangeLabelsKey] = <<ivs[last.iv].label>>
        /\ \A k \in (DOMAIN last.pre.props.map) \ ReservedKeys :
              /\ k \in DOMAIN last.pre.wire.properties.map
              /\ last.pre.wire.properties.map[k] = last.pre.props.map[k]
        /\ DOMAIN last.pre.wire.properties.map = (DOMAIN last.pre.props.map) \cup ReservedKeys
        /\ last.pre.wire.properties.undef = last.pre.props.undef \ ReservedKeys

\* serializeDelta was given props with a user key and a reserved key whose value is
\* not the interval's
C12_Witness ==
    /\ last.op = "serializeDelta"
    /\ "color" \in DOMAIN last.pre.props.map
    /\ \E k \in ReservedKeys :
          /\ k \in DOMAIN last.pre.props.map
          /\ last.pre.props.map[k] # last.pre.wire.properties.map[k]

RecordMap(record) == IF record.properties.given THEN record.properties.map ELSE EmptyProps

\* the keys of a record's properties whose value is undefined
RecordUndefined(record) == IF record.properties.given THEN record.properties.undef ELSE {}

Legacy3to7 == <<108, 101, 103, 97, 99, 121, 51, 45, 55>>
Legacy3to12 == <<108, 101, 103, 97, 99, 121, 51, 45, 49, 50>>

\* C13: getSerializedProperties returns the record's intervalId when it has one, and
\* otherwise "legacy" + start + "-" + end ("legacy3-7" for start 3 and end 7); every
\* record without intervalId and with the same start and end gets the same id.
C13_LegacyId ==
    last.op = "getSerializedProperties" =>
        /\ reservedIntervalIdKey \in DOMAIN RecordMap(last.pre.record)
              => last.pre.got.id = RecordMap(last.pre.record)[reservedIntervalIdKey]
        /\ reservedIntervalIdKey \notin DOMAIN RecordMap(last.pre.record)
              => /\ SubSeq(last.pre.got.id, 1, 6) = legacyIdPrefix
                 /\ (last.pre.record.start = 3 /\ last.pre.record.end = 7)
                       => last.pre.got.id = Legacy3to7
                 /\ (last.pre.record.start = 3 /\ last.pre.record.end = 12)
                       => last.pre.got.id = Legacy3to12
                 /\ \A other \in LegacyRecords :
                       (/\ reservedIntervalIdKey \notin DOMAIN RecordMap(other)
                        /\ other.start = last.pre.record.start
                        /\ other.end = last.pre.record.end)
                          => getSerializedProperties(other).id = last.pre.got.id

\* a record without intervalId got a legacy id that another record, with other
\* properties and the same start and end, gets too
C13_Witness ==
    /\ last.op = "getSerializedProperties"
    /\ reservedIntervalIdKey \notin DOMAIN RecordMap(last.pre.record)
    /\ last.pre.got.id = Legacy3to7
    /\ \E other \in LegacyRecords :
          /\ other # last.pre.record
          /\ getSerializedProperties(other).id = last.pre.got.id

\* C14 as stated: for a record whose properties lack referenceRangeLabels, or that
\* has no properties, getSerializedProperties returns the empty list as labels, and
\* properties with neither reserved key and exactly the record's other keys.
C14_AsStated ==
    (/\ last.op = "getSerializedProperties"
     /\ reservedRangeLabelsKey \notin DOMAIN RecordMap(last.pre.record))
        => /\ last.pre.got.labels.given
           /\ last.pre.got.labels.list = <<>>
           /\ DOMAIN last.pre.got.properties.map =
                 (DOMAIN RecordMap(last.pre.record)) \ ReservedKeys
           /\ \A k \in DOMAIN last.pre.got.properties.map :
                 last.pre.got.properties.map[k] = RecordMap(last.pre.record)[k]
           /\ last.pre.got.properties.undef = RecordUndefined(last.pre.record) \ ReservedKeys

----------------------------------------------------------------------------
(* Claims on SpecObject *)

\* C15: the properties of an interval never hold the keys "intervalId" and
\* "referenceRangeLabels", however the interval was made (the constructor,
\* createSequenceInterval, clone, modify) and after changeProperties.
C15_AsStated ==
    \A i \in Intervals : (DOMAIN ivs[i].properties) \cap ReservedKeys = {}

----------------------------------------------------------------------------
(* Claims on SpecLabels *)

\* the referenceRangeLabels of both references of interval i are [its label]
EndpointLabelsMatch(i) ==
    /\ reservedRangeLabelsKey \in DOMAIN startRef(i).properties
    /\ startRef(i).properties[reservedRangeLabelsKey] = <<ivs[i].label>>
    /\ reservedRangeLabelsKey \in DOMAIN endRef(i).properties
    /\ endRef(i).properties[reservedRangeLabelsKey] = <<ivs[i].label>>

\* C16: for every interval made by createSequenceInterval, modify, clone or
\* union (a union of two intervals with different labels included), the
\* referenceRangeLabels in the properties of its start reference and of its
\* end reference are [the interval's label].
C16_AsStated ==
    \A i \in Intervals : EndpointLabelsMatch(i)

----------------------------------------------------------------------------
(* Claims on SpecListeners *)

\* the callbacks of both references of interval i are the pair (before, after)
BothSlideCallbacks(i, before, after) ==
    /\ startRef(i).callbacks = slideCallbacks(before, after)
    /\ endRef(i).callbacks = slideCallbacks(before, after)

\* C17: on an interval with references of its own, the beforeSlide/afterSlide
\* of both references are the pair given to the first
\* addPositionChangeListeners since the last removePositionChangeListeners:
\* an add on an unsubscribed interval installs its pair, an add on a
\* subscribed interval changes nothing, a remove on a subscribed interval
\* clears the callbacks of both references, a remove on an unsubscribed
\* interval changes nothing, and no other operation touches them.
C17_ListenersSinglePaired ==
    /\ \A i \in Intervals :
          IF ivs[i].callbacks.defined
          THEN BothSlideCallbacks(i, ivs[i].callbacks.beforePositionChange,
                                     ivs[i].callbacks.afterPositionChange)
          ELSE /\ startRef(i).callbacks = NoCallbacks
               /\ endRef(i).callbacks = NoCallbacks
    /\ last.op = "addPositionChangeListeners" =>
          IF last.pre.ivs[last.iv].callbacks.defined
          THEN ivs = last.pre.ivs /\ refs = last.pre.refs
          ELSE /\ BothSlideCallbacks(last.iv, last.pre.before, last.pre.after)
               /\ ivs[last.iv].callbacks.defined
               /\ ivs[last.iv].callbacks.beforePositionChange = last.pre.before
               /\ ivs[last.iv].callbacks.afterPositionChange = last.pre.after
    /\ last.op = "removePositionChangeListeners" =>
          IF last.pre.ivs[last.iv].callbacks.defined
          THEN /\ ~ivs[last.iv].callbacks.defined
               /\ startRef(last.iv).callbacks = NoCallbacks
               /\ endRef(last.iv).callbacks = NoCallbacks
          ELSE ivs = last.pre.ivs /\ refs = last.pre.refs

\* a second add, with another pair, on a subscribed interval
C17_Witness ==
    /\ last.op = "addPositionChangeListeners"
    /\ last.pre.ivs[last.iv].callbacks.defined
    /\ last.pre.ivs[last.iv].callbacks.beforePositionChange # last.pre.before
    /\ BothSlideCallbacks(last.iv, last.pre.ivs[last.iv].callbacks.beforePositionChange,
                           last.pre.ivs[last.iv].callbacks.afterPositionChange)

----------------------------------------------------------------------------
(* Claims on SpecOverlap *)

\* C18: overlap is symmetric: for all intervals a and b, a.overlaps(b)
\* exactly when b.overlaps(a).
C18_OverlapSymmetric ==
    /\ \A i \in Intervals, j \in Intervals :
          overlaps(refs, ivs[i], ivs[j]) <=> overlaps(refs, ivs[j], ivs[i])
    /\ last.op = "overlaps" =>
          (last.pre.result <=> overlaps(refs, ivs[last.res], ivs[last.iv]))

\* two intervals that touch in one position overlap, asked either way
C18_Witness ==
    /\ last.op = "overlaps"
    /\ last.pre.result
    /\ last.iv # last.res
    /\ endPosition(last.iv) = startPosition(last.res)
    /\ startPosition(last.iv) < endPosition(last.iv)
    /\ startPosition(last.res) < endPosition(last.res)
    /\ overlaps(refs, ivs[last.res], ivs[last.iv])

\* C19: overlapsPos(bstart, bend) is true exactly when the interval's end
\* position is greater than bstart and its start position is less than
\* bend: an interval that touches the range at a boundary, and an empty
\* interval at bstart, do not overlap it; an interval that begins before
\* the range and ends inside it does.
C19_OverlapsPosStrict ==
    last.op = "overlapsPos" =>
        LET startPos == startPosition(last.iv)
            endPos == endPosition(last.iv)
            bstart == last.pre.bstart
            bend == last.pre.bend
        IN /\ last.pre.result <=> (endPos > bstart /\ startPos < bend)
           /\ endPos = bstart => ~last.pre.result
           /\ startPos = bend => ~last.pre.result
           /\ (startPos = bstart /\ endPos = bstart) => ~last.pre.result
           /\ (startPos < bstart /\ bstart < endPos /\ endPos < bend) => last.pre.result

\* the interval (0, 2) overlaps the range (1, 3), as (0, 5) overlaps (3, 7)
C19_Witness ==
    /\ last.op = "overlapsPos"
    /\ startPosition(last.iv) = 0 /\ endPosition(last.iv) = 2
    /\ last.pre.bstart = 1 /\ last.pre.bend = 3
    /\ last.pre.result

----------------------------------------------------------------------------
(* Claims on SpecSegment *)

UsageErrorNeedSegment == "UsageError: Non-transient references need segment"

\* C20: when no segment resolves, reference creation throws the UsageError
\* "Non-transient references need segment" exactly when there is no op, no
\* localSeq, the request is not from a snapshot, not a rollback, and refType
\* lacks Transient; then no reference is made, and no interval when the
\* reference was asked for by createSequenceInterval; in every other case a
\* detached reference with the given slidingPreference and refType is made.
C20_NeedSegment ==
    /\ (last.op = "createPositionReferenceFromSegoff" /\ last.pre.segoff = NoSeg) =>
          IF /\ ~last.pre.op.present
             /\ last.pre.localSeq = Undefined
             /\ ~last.pre.fromSnapshot
             /\ ~last.pre.rollback
             /\ ~includesFlag(last.pre.refType, Transient)
          THEN /\ last.err = UsageErrorNeedSegment
               /\ refs = <<>>
               /\ ivs = <<>>
          ELSE /\ last.err = "none"
               /\ Len(refs) = 1
               /\ refs[1].seg = NoSeg
               /\ refs[1].slidingPreference = last.pre.slidingPreference
               /\ refs[1].refType = last.pre.refType
    /\ (last.op = "createPositionReferenceFromSegoff" /\ last.pre.segoff # NoSeg) =>
          last.err = "none"
    /\ (last.op = "create" /\ last.err = UsageErrorNeedSegment) =>
          /\ ivs = <<>>
          /\ hist = <<>>

\* a local createSequenceInterval after the text was removed: the error, and
\* neither a reference nor an interval
C20_Witness ==
    /\ last.op = "create"
    /\ last.err = UsageErrorNeedSegment
    /\ getLength(removedSeq) = 0
    /\ refs = <<>>
    /\ ivs = <<>>

----------------------------------------------------------------------------
(* Claims on SpecReference *)

\* the flag/origin precondition of createPositionReference is violated
FlagOriginViolated(refType, op, fromSnapshot) ==
    \/ op.present /\ ~includesFlag(refType, SlideOnRemove)
    \/ ~op.present /\ ~fromSnapshot /\ includesFlag(refType, SlideOnRemove)

\* C21 as stated: reference creation fails with a UsageError, and makes no
\* reference, exactly when the flag/origin precondition is violated, for
\* "start"/"end" as for numeric positions.
C21_AsStated ==
    last.op = "createPositionReference" =>
        IF FlagOriginViolated(last.pre.refType, last.pre.op, last.pre.fromSnapshot)
        THEN last.err = UsageErrorNeedSegment /\ refs = <<>>
        ELSE last.err \in {"none", UsageErrorNeedSegment}

\* C21: reference creation fails with an assertion (0x2f5 with an op and no
\* SlideOnRemove, 0x2f6 with SlideOnRemove and neither op nor snapshot), and
\* makes no reference, exactly when the flag/origin precondition is
\* violated, for "start"/"end" as for numeric positions; the failure is not
\* a UsageError.
C21_AssertOnFlagOrigin ==
    last.op = "createPositionReference" =>
        IF FlagOriginViolated(last.pre.refType, last.pre.op, last.pre.fromSnapshot)
        THEN /\ last.err = IF last.pre.op.present THEN "assert 0x2f5" ELSE "assert 0x2f6"
             /\ refs = <<>>
        ELSE last.err \in {"none", UsageErrorNeedSegment}

\* a reference asked for at "start" with an op and StayOnRemove
C21_Witness ==
    /\ last.op = "createPositionReference"
    /\ last.pre.pos = StartPos
    /\ last.pre.op.present
    /\ last.pre.refType = {RangeBegin, StayOnRemove}
    /\ last.err = "assert 0x2f5"
    /\ refs = <<>>

----------------------------------------------------------------------------
(* Further claims on SpecModify *)

\* a modify with an op seen at the current sequence number
OpModify(i, start, end) == modify(Client, refs, ivs[i], "y", start, end, OpAt(curSeq), Undefined)

\* the references of interval i that a modify to (start, end) replaces
Replaced(i, start, end) ==
    (IF start = NoPlace THEN {} ELSE {ivs[i].start}) \cup (IF end = NoPlace THEN {} ELSE {ivs[i].end})

\* C22 as stated: modify with an op succeeds on every reachable interval and
\* gives each replaced endpoint a reference with the refType of the reference
\* it replaces, whether that one carries SlideOnRemove or StayOnRemove.
C22_AsStated ==
    \A i \in Intervals : \A start \in ModifyStarts, end \in ModifyEnds :
        LET r == OpModify(i, start, end)
        IN /\ r.err = "none"
           /\ start # NoPlace => ResultRef(r, r.ival.start).refType = startRef(i).refType
           /\ end # NoPlace => ResultRef(r, r.ival.end).refType = endRef(i).refType

\* C22: modify with an op keeps the flags: when every endpoint it replaces
\* carries SlideOnRemove it succeeds and each new reference has the refType
\* of the one it replaces; when an endpoint it replaces lacks SlideOnRemove
\* (StayOnRemove of a pending endpoint, or Transient) it fails with the
\* assertion 0x2f5 and returns no interval.
C22_OpModifyKeepsFlags ==
    \A i \in Intervals : \A start \in ModifyStarts, end \in ModifyEnds :
        LET r == OpModify(i, start, end)
        IN IF \E k \in Replaced(i, start, end) : ~includesFlag(refs[k].refType, SlideOnRemove)
           THEN r.err = "assert 0x2f5" /\ r.ival = NoInterval
           ELSE /\ r.err = "none"
                /\ start # NoPlace =>
                      /\ r.ival.start \notin DOMAIN refs
                      /\ ResultRef(r, r.ival.start).refType = startRef(i).refType
                /\ end # NoPlace =>
                      /\ r.ival.end \notin DOMAIN refs
                      /\ ResultRef(r, r.ival.end).refType = endRef(i).refType

\* a modify with an op of an interval whose endpoints are pending: the assertion
C22_Witness ==
    /\ last.op = "modify"
    /\ last.err = "assert 0x2f5"
    /\ ivs[last.iv].intervalType = TypeSlideOnRemove
    /\ includesFlag(startRef(last.iv).refType, StayOnRemove)
    /\ includesFlag(endRef(last.iv).refType, StayOnRemove)

----------------------------------------------------------------------------
(* Further claims on SpecSegment *)

\* the interval createSequenceInterval has just returned
JustCreated == last.op = "create" /\ last.err = "none"

\* C23 as stated: createSequenceInterval gives the start RangeBegin and the
\* end RangeEnd with one more flag OR-ed in: Transient for a transient
\* interval, otherwise SlideOnRemove when created from an op or a snapshot,
\* otherwise StayOnRemove.
C23_AsStated ==
    JustCreated =>
        LET flag == IF ivs[last.res].intervalType = TypeTransient THEN Transient
                    ELSE IF ~refPending[ivs[last.res].start] THEN SlideOnRemove
                    ELSE StayOnRemove
        IN /\ startRef(last.res).refType = {RangeBegin, flag}
           /\ endRef(last.res).refType = {RangeEnd, flag}

\* C23: createSequenceInterval gives both endpoints of a transient interval
\* the refType Transient alone (without RangeBegin and RangeEnd); otherwise
\* the start gets RangeBegin and the end RangeEnd, with SlideOnRemove when
\* created from an op or a snapshot and with StayOnRemove otherwise.
C23_EndpointRefTypes ==
    JustCreated =>
        IF ivs[last.res].intervalType = TypeTransient
        THEN /\ startRef(last.res).refType = {Transient}
             /\ endRef(last.res).refType = {Transient}
        ELSE LET flag == IF ~refPending[ivs[last.res].start] THEN SlideOnRemove
                         ELSE StayOnRemove
             IN /\ startRef(last.res).refType = {RangeBegin, flag}
                /\ endRef(last.res).refType = {RangeEnd, flag}

\* a transient interval has just been created
C23_Witness ==
    /\ JustCreated
    /\ ivs[last.res].intervalType = TypeTransient
    /\ startRef(last.res).refType = {Transient}
    /\ endRef(last.res).refType = {Transient}

----------------------------------------------------------------------------
(* Further claims on SpecModify: transient intervals *)

\* C24: the endpoint references of a Transient interval, after
\* createTransientInterval and any modify without op, carry Transient and
\* neither StayOnRemove nor SlideOnRemove.
C24_AsStated ==
    \A i \in Intervals :
        ivs[i].intervalType = TypeTransient =>
            \A r \in {startRef(i), endRef(i)} :
                /\ includesFlag(r.refType, Transient)
                /\ ~includesFlag(r.refType, StayOnRemove)
                /\ ~includesFlag(r.refType, SlideOnRemove)

----------------------------------------------------------------------------
(* Claims on SpecSliding *)

\* the stickiness createSequenceInterval computes for the places (start, end)
CreateStickiness(start, end) ==
    LET s == IF start.kind = "undefined" THEN Plain(StartPos) ELSE start
        e == IF end.kind = "undefined" THEN Plain(EndPos) ELSE end
    IN computeStickinessFromSide(placePos(s), placeSide(s), placePos(e), placeSide(e))

\* the stickiness modify computes for interval i and the places (start, end)
ModifyStickiness(i, start, end) ==
    computeStickinessFromSide(
        IF placePos(start) # Undefined THEN placePos(start) ELSE endpointType(startRef(i).seg),
        IF placeSide(start) # NoSide THEN placeSide(start) ELSE ivs[i].startSide,
        IF placePos(end) # Undefined THEN placePos(end) ELSE endpointType(endRef(i).seg),
        IF placeSide(end) # NoSide THEN placeSide(end) ELSE ivs[i].endSide)

\* a new start (end) reference slides as the stickiness says; attachedOnly:
\* canSlideToEndpoint is looked at only on a reference that has a segment
StartSlidesBy(ref, sticky, attachedOnly) ==
    /\ ref.slidingPreference = startReferenceSlidingPreference(sticky)
    /\ IF attachedOnly /\ ref.seg = NoSeg
       THEN ~ref.canSlideToEndpoint
       ELSE ref.canSlideToEndpoint <=> (ref.slidingPreference = BACKWARD)

EndSlidesBy(ref, sticky, attachedOnly) ==
    /\ ref.slidingPreference = endReferenceSlidingPreference(sticky)
    /\ IF attachedOnly /\ ref.seg = NoSeg
       THEN ~ref.canSlideToEndpoint
       ELSE ref.canSlideToEndpoint <=> (ref.slidingPreference = FORWARD)

SlidingByStickiness(attachedOnly) ==
    /\ ivs = <<>> =>
          \A start \in CreateStarts, end \in CreateEnds, op \in {NoOp, OpAt(curSeq)} :
              LET r == createSequenceInterval(Client, Len(refs), "x", IdA, start, end,
                           TypeSlideOnRemove, op, FALSE, NoProps, FALSE)
              IN r.err = "none" =>
                    /\ StartSlidesBy(r.newRefs[1], CreateStickiness(start, end), attachedOnly)
                    /\ EndSlidesBy(r.newRefs[2], CreateStickiness(start, end), attachedOnly)
    /\ \A i \in Intervals : \A start \in ModifyStarts, end \in ModifyEnds :
          LET r == IF includesFlag(startRef(i).refType, SlideOnRemove)
                      /\ includesFlag(endRef(i).refType, SlideOnRemove)
                   THEN OpModify(i, start, end) ELSE LocalModify(i, start, end)
          IN r.err = "none" =>
                /\ start # NoPlace =>
                      StartSlidesBy(ResultRef(r, r.ival.start), ModifyStickiness(i, start, end),
                                    attachedOnly)
                /\ end # NoPlace =>
                      EndSlidesBy(ResultRef(r, r.ival.end), ModifyStickiness(i, start, end),
                                  attachedOnly)

\* C25 as stated: every reference createSequenceInterval or modify creates
\* has the sliding preference of the stickiness, and canSlideToEndpoint is
\* true iff that preference is Backward (start) or Forward (end).
C25_AsStated == SlidingByStickiness(FALSE)

\* C25: the same, for the references created on a segment; a reference
\* created detached, because its position has no segment, carries the
\* sliding preference and canSlideToEndpoint is not set.
C25_SlidingByStickiness == SlidingByStickiness(TRUE)

\* a modify without start: the end is replaced, with the preference of the
\* stickiness that falls back on the start's segment and side
C25_Witness ==
    /\ last.op = "modify" /\ last.err = "none"
    /\ ivs[last.res].start = ivs[last.iv].start
    /\ ivs[last.res].end # ivs[last.iv].end
    /\ ivs[last.iv].startSide = After
    /\ endRef(last.res).seg # NoSeg
    /\ endRef(last.res).slidingPreference = BACKWARD
    /\ ~endRef(last.res).canSlideToEndpoint

----------------------------------------------------------------------------
(* Further claims on SpecWire *)

\* what serializeDelta writes for a reference with includeEndpoints: the
\* sentinel of an endpoint segment, otherwise the client's position
EndpointField(ref) ==
    IF ref.seg = StartSeg THEN StartPos
    ELSE IF ref.seg = EndSeg THEN EndPos
    ELSE localReferencePositionToPosition(removedSeq, ref)

\* C26: serializeDelta without includeEndpoints leaves start, end, startSide
\* and endSide undefined and still writes intervalType, sequenceNumber (the
\* client's current sequence number), stickiness and properties; with
\* includeEndpoints, start and end are "start"/"end" for a reference on a
\* sentinel endpoint segment and the client's numeric position otherwise,
\* and startSide/endSide are the interval's sides.
C26_EndpointFields ==
    last.op = "serializeDelta" =>
        LET wire == last.pre.wire
            iv == ivs[last.iv]
        IN /\ wire.intervalType = iv.intervalType
           /\ wire.sequenceNumber = curSeq
           /\ wire.stickiness = stickiness(refs, iv)
           /\ wire.properties.given
           /\ IF last.pre.includeEndpoints
              THEN /\ wire.start = EndpointField(startRef(last.iv))
                   /\ wire.end = EndpointField(endRef(last.iv))
                   /\ wire.startSide = iv.startSide
                   /\ wire.endSide = iv.endSide
              ELSE /\ wire.start = Undefined
                   /\ wire.end = Undefined
                   /\ wire.startSide = NoSide
                   /\ wire.endSide = NoSide

\* an interval whose end slid onto the end of the text, serialized with its
\* endpoints: a numeric start and the sentinel "end"
C26_Witness ==
    /\ last.op = "serializeDelta"
    /\ last.pre.includeEndpoints
    /\ endRef(last.iv).seg = EndSeg
    /\ last.pre.wire.end = EndPos
    /\ startRef(last.iv).seg \in Slots
    /\ last.pre.wire.start = startPosition(last.iv)
    /\ last.pre.wire.endSide = ivs[last.iv].endSide

----------------------------------------------------------------------------
(* Claims on SpecShared *)

\* C27: an interval that has subscribed listeners and has not removed them
\* finds its own pair as beforeSlide/afterSlide on both of its references,
\* also after an interval that shares a reference with it (a modified copy
\* with one endpoint kept, a clone, a union) added or removed listeners.
C27_AsStated ==
    \A i \in Intervals :
        ivs[i].callbacks.defined =>
            BothSlideCallbacks(i, ivs[i].callbacks.beforePositionChange,
                                  ivs[i].callbacks.afterPositionChange)


----------------------------------------------------------------------------
(* C28 *)

\* the operations that read intervals, and those that return a new one
FrameQueries == {"compare", "overlaps", "overlapsPos", "serialize", "serializeDelta"}
FrameMakers == {"clone", "union", "modify"}

\* the step leaves every interval and every reference there was as it was
FrameKept ==
    /\ \A i \in DOMAIN ivs : i \in DOMAIN ivs' /\ ivs'[i] = ivs[i]
    /\ \A k \in DOMAIN refs : k \in DOMAIN refs' /\ refs'[k] = refs[k]
    /\ removedSeq' = removedSeq /\ curSeq' = curSeq

\* the step is a changeProperties on an interval returned by clone or modify
ChangeOfCopy ==
    /\ last'.op = "changeProperties"
    /\ last'.iv \in DOMAIN hist
    /\ hist[last'.iv].how \in {"clone", "modify"}

\* C28: clone, compare, compareStart, compareEnd, overlaps, overlapsPos, union,
\* modify, serialize and serializeDelta leave the receiver, the argument and
\* every reference there was unchanged (refType, properties and callbacks
\* included); a query adds nothing, clone and union add one interval and no
\* reference, modify adds at most one interval and its new references; and
\* changeProperties on an interval returned by clone or modify changes the
\* properties of no other interval.
C28_Frame ==
    [][ /\ last'.op \in FrameQueries \cup FrameMakers => FrameKept
        /\ last'.op \in FrameQueries => ivs' = ivs /\ refs' = refs
        /\ last'.op \in {"clone", "union"} => Len(ivs') = Len(ivs) + 1 /\ refs' = refs
        /\ last'.op = "modify" => Len(ivs') <= Len(ivs) + 1
        /\ ChangeOfCopy =>
              \A j \in DOMAIN ivs : j # last'.iv => ivs'[j].properties = ivs[j].properties
      ]_vars

\* a clone of an interval with listeners and properties had its properties
\* changed: the original still has its own, and its references their callbacks
C28_Witness ==
    /\ last.op = "changeProperties"
    /\ last.iv \in Intervals
    /\ hist[last.iv].how = "clone"
    /\ ivs[last.iv].properties # ivs[hist[last.iv].from].properties
    /\ ivs[hist[last.iv].from].callbacks.defined
    /\ refs[ivs[hist[last.iv].from].start].callbacks.defined
====
